---- MODULE Spec2Model ----
(***************************************************************************)
(* SVAP pipeline engine: the stage log (storage.py), the human gate        *)
(* (stage_runner.py), the orchestrator's prerequisite check                *)
(* (orchestrator.py), the delta ledger used by the stages and the schema   *)
(* migrator (storage.py).                                                  *)
(*                                                                         *)
(* A stage_log row is modelled by the columns the operations read or the   *)
(* claims speak about: run_id, stage, status, error_message, task_token.   *)
(* The row id is the row's position in the sequence (SERIAL id, insertion  *)
(* order).  Timestamps and metadata are written but never read by any      *)
(* operation and are left out.                                             *)
(***************************************************************************)
EXTENDS Integers, Sequences, FiniteSets, TLC

VARIABLES
    stage_log,            \* table stage_log, in id order
    exploitation_trees,   \* policy_id -> review_status of its tree ("absent" if none)
    lastCall,             \* history: the operation executed last and what it observed
    part,                 \* the part of the pipeline the behaviour exercises
    cases,                \* table cases: case_id -> enabling_condition
    taxonomy,             \* quality_ids of the taxonomy rows with review_status approved
    convergence_scores,   \* case_ids that have rows in convergence_scores
    calibration,          \* table calibration: no row, or the row of id 1
    policies,             \* policy_id -> structural_characterization (NULL: SQL null)
    quality_assessments,  \* policy_ids that have rows in quality_assessments
    policy_scores,        \* policy_id -> quality_ids its policy_scores rows mark present
    exploitation_steps,   \* policy_id -> the steps of its tree
    detection_patterns,   \* step_ids that have rows in detection_patterns
    stage_processing_log, \* <<stage, entity_id>> -> [input_hash, run_id] of its row
    lastRun,              \* history: the delta stage run executed last
    schema_version,       \* table _svap_schema as committed: no row, or the version of row 1
    applied,              \* history: version -> committed executions of its MIGRATIONS entry
    advisory_lock,        \* instances holding pg advisory lock 42
    conn,                 \* instance -> its module-level connection _conn
    proc,                 \* instance -> position of its process in __init__ / _migrate
    schema_ready,         \* instance -> SVAPStorage._schema_ready of its process
    lastMigrate,          \* history: instance -> its last _migrate call
    jobs,                 \* run_parallel_llm: the jobs of the batch, in submission order
    max_concurrency,      \* run_parallel_llm: max_workers of its executor
    futures,              \* job -> state of its future
    total,                \* run_parallel_llm: the local total
    failed,               \* run_parallel_llm: the local failed
    dispatcher,           \* position of the thread that called run_parallel_llm
    calls,                \* history: job -> calls of invoke_fn and on_result for it
    attempts,             \* process -> its call of STAGES[n].run and where it stands
    cli,                  \* the process running orchestrator.cmd_run and where it stands
    lastRecord,           \* history: the record_processing call committed last
    approvals             \* a gate registration and the approval requests racing with it

logVars == <<stage_log, exploitation_trees, lastCall>>

corpusVars == <<cases, taxonomy, convergence_scores, calibration, policies,
                quality_assessments, policy_scores, exploitation_steps,
                detection_patterns>>

migrateVars == <<schema_version, applied, advisory_lock, conn, proc, schema_ready,
                 lastMigrate>>

parallelVars == <<jobs, max_concurrency, futures, total, failed, dispatcher, calls>>

attemptVars == <<attempts, cli, lastRecord, approvals>>

deltaVars == <<part, attemptVars, parallelVars, corpusVars, stage_processing_log, lastRun,
               migrateVars>>

vars == <<logVars, deltaVars>>

----------------------------------------------------------------------------
(* Bounds and input domains *)

MaxLog == 2
MaxAttempts == 3

Runs == {"r1"}
Policies == {"p1", "p2"}
Tokens == {"tok-abc", "tok-xyz"}
Errors == {"boom"}

NULL == "NULL"

(* STAGES of orchestrator.py: the stages _run_stage can dispatch to *)
STAGES == {1, 2, 3, 4, 5, 6}

(* human_gates default of orchestrator.py / the stages api.py accepts *)
human_gates == {2, 5}

----------------------------------------------------------------------------
(* Stage log: storage.py *)

Matches(row, run_id, stage) == row.run_id = run_id /\ row.stage = stage

(* INSERT INTO stage_log (run_id, stage, status, started_at) VALUES (.., 'running', ..) *)
LogStageStart(log, run_id, stage) ==
    Append(log, [run_id |-> run_id, stage |-> stage, status |-> "running",
                 error_message |-> NULL, task_token |-> NULL])

(* mutant: the UPDATE without its status='running' condition *)
LogStageComplete_AnyStatus(log, run_id, stage) ==
    [i \in DOMAIN log |->
        IF Matches(log[i], run_id, stage)
        THEN [log[i] EXCEPT !.status = "completed"]
        ELSE log[i]]

(* mutant: a return path that does not write to the stage log *)
LogStageComplete_Missing(log, run_id, stage) == log

(* mutant: the stage is logged as failed where it logs completed *)
LogStageComplete_Failed(log, run_id, stage) ==
    [i \in DOMAIN log |->
        IF Matches(log[i], run_id, stage) /\ log[i].status = "running"
        THEN [log[i] EXCEPT !.status = "failed"]
        ELSE log[i]]

(* UPDATE stage_log SET status='completed' WHERE run_id AND stage AND status='running' *)
LogStageComplete(log, run_id, stage) ==
    [i \in DOMAIN log |->
        IF Matches(log[i], run_id, stage) /\ log[i].status = "running"
        THEN [log[i] EXCEPT !.status = "completed"]
        ELSE log[i]]

(* mutant: the except branch does not write to the stage log *)
LogStageFailed_Unlogged(log, run_id, stage, error) == log

(* UPDATE stage_log SET status='failed', error_message=.. WHERE .. status='running' *)
LogStageFailed(log, run_id, stage, error) ==
    [i \in DOMAIN log |->
        IF Matches(log[i], run_id, stage) /\ log[i].status = "running"
        THEN [log[i] EXCEPT !.status = "failed", !.error_message = error]
        ELSE log[i]]

(* mutant: the UPDATE without its status='running' condition *)
LogStagePendingReview_AnyStatus(log, run_id, stage) ==
    [i \in DOMAIN log |->
        IF Matches(log[i], run_id, stage)
        THEN [log[i] EXCEPT !.status = "pending_review"]
        ELSE log[i]]

(* UPDATE stage_log SET status='pending_review' WHERE .. status='running' *)
LogStagePendingReview(log, run_id, stage) ==
    [i \in DOMAIN log |->
        IF Matches(log[i], run_id, stage) /\ log[i].status = "running"
        THEN [log[i] EXCEPT !.status = "pending_review"]
        ELSE log[i]]

(* mutant: the UPDATE without its status='pending_review' condition *)
ApproveStageLog_AnyStatus(log, run_id, stage) ==
    [i \in DOMAIN log |->
        IF Matches(log[i], run_id, stage)
        THEN [log[i] EXCEPT !.status = "approved"]
        ELSE log[i]]

(* UPDATE stage_log SET status='approved' WHERE .. status='pending_review' *)
ApproveStageLog(log, run_id, stage) ==
    [i \in DOMAIN log |->
        IF Matches(log[i], run_id, stage) /\ log[i].status = "pending_review"
        THEN [log[i] EXCEPT !.status = "approved"]
        ELSE log[i]]

(* if stage == 5: UPDATE exploitation_trees SET review_status='approved'
   WHERE review_status='draft' *)
ApproveStageTrees(trees, stage) ==
    IF stage = 5
    THEN [p \in DOMAIN trees |-> IF trees[p] = "draft" THEN "approved" ELSE trees[p]]
    ELSE trees

(* ids of the rows of (run_id, stage) *)
RowsOf(log, run_id, stage) == {i \in DOMAIN log : Matches(log[i], run_id, stage)}

MaxOf(S) == CHOOSE i \in S : \A j \in S : j <= i

MinOf(S) == CHOOSE i \in S : \A j \in S : i <= j

(* SELECT status FROM stage_log WHERE run_id AND stage ORDER BY id DESC LIMIT 1 *)
get_stage_status(log, run_id, stage) ==
    IF RowsOf(log, run_id, stage) = {} THEN NULL
    ELSE log[MaxOf(RowsOf(log, run_id, stage))].status

(* UPDATE stage_log SET task_token = t WHERE id = (SELECT id .. ORDER BY id DESC LIMIT 1) *)
StoreTaskToken(log, run_id, stage, task_token) ==
    IF RowsOf(log, run_id, stage) = {} THEN log
    ELSE [log EXCEPT ![MaxOf(RowsOf(log, run_id, stage))].task_token = task_token]

(* mutant: ORDER BY id ASC, the oldest token of (run_id, stage) *)
get_task_token_Oldest(log, run_id, stage) ==
    LET withToken == {i \in RowsOf(log, run_id, stage) : log[i].task_token # NULL}
    IN  IF withToken = {} THEN NULL ELSE log[MinOf(withToken)].task_token

(* SELECT task_token .. WHERE run_id AND stage AND task_token IS NOT NULL
   ORDER BY id DESC LIMIT 1 *)
get_task_token(log, run_id, stage) ==
    LET withToken == {i \in RowsOf(log, run_id, stage) : log[i].task_token # NULL}
    IN  IF withToken = {} THEN NULL ELSE log[MaxOf(withToken)].task_token

----------------------------------------------------------------------------
(* History record of the operation executed last.
   prev     : get_stage_status(run_id, stage) before the operation
   prereq   : get_stage_status(run_id, stage - 1) before the operation
   token    : the task token the operation was given; for approve_stage, the token
              of the gate registration of the same (run_id, stage) that it
              immediately follows, if any
   error    : the message of the exception the operation raised, NULL if none
   invoked  : the stages whose logic (STAGES[n].run) the operation entered *)
Call(op, run_id, stage, prev, prereq, token, error, invoked) ==
    [op |-> op, run_id |-> run_id, stage |-> stage, prev |-> prev, prereq |-> prereq,
     token |-> token, error |-> error, invoked |-> invoked]

StorageCall(op, run_id, stage, token) ==
    Call(op, run_id, stage, get_stage_status(stage_log, run_id, stage),
         NULL, token, NULL, {})

----------------------------------------------------------------------------
(* Storage operations called directly *)

log_stage_start(run_id, stage) ==
    /\ Len(stage_log) < MaxLog
    /\ stage_log' = LogStageStart(stage_log, run_id, stage)
    /\ lastCall' = StorageCall("log_stage_start", run_id, stage, NULL)
    /\ UNCHANGED <<exploitation_trees, deltaVars>>

log_stage_complete(run_id, stage) ==
    /\ stage_log' = LogStageComplete(stage_log, run_id, stage)
    /\ lastCall' = StorageCall("log_stage_complete", run_id, stage, NULL)
    /\ UNCHANGED <<exploitation_trees, deltaVars>>

log_stage_failed(run_id, stage, error) ==
    /\ stage_log' = LogStageFailed(stage_log, run_id, stage, error)
    /\ lastCall' = StorageCall("log_stage_failed", run_id, stage, NULL)
    /\ UNCHANGED <<exploitation_trees, deltaVars>>

log_stage_pending_review(run_id, stage) ==
    /\ stage_log' = LogStagePendingReview(stage_log, run_id, stage)
    /\ lastCall' = StorageCall("log_stage_pending_review", run_id, stage, NULL)
    /\ UNCHANGED <<exploitation_trees, deltaVars>>

GateTokenBefore(run_id, stage) ==
    IF lastCall.op = "handler_gate" /\ lastCall.run_id = run_id /\ lastCall.stage = stage
    THEN lastCall.token ELSE NULL

approve_stage(run_id, stage) ==
    /\ stage_log' = ApproveStageLog(stage_log, run_id, stage)
    /\ exploitation_trees' = ApproveStageTrees(exploitation_trees, stage)
    /\ lastCall' = StorageCall("approve_stage", run_id, stage,
                               GateTokenBefore(run_id, stage))
    /\ UNCHANGED deltaVars

store_task_token(run_id, stage, task_token) ==
    /\ stage_log' = StoreTaskToken(stage_log, run_id, stage, task_token)
    /\ lastCall' = StorageCall("store_task_token", run_id, stage, task_token)
    /\ UNCHANGED <<exploitation_trees, deltaVars>>

(* INSERT INTO exploitation_trees (.., review_status, ..) VALUES (.., 'draft', ..)
   ON CONFLICT (tree_id) DO UPDATE SET .. review_status = EXCLUDED.review_status *)
InsertExploitationTree(trees, policy_id) == [trees EXCEPT ![policy_id] = "draft"]

insert_exploitation_tree(policy_id) ==
    /\ exploitation_trees' = InsertExploitationTree(exploitation_trees, policy_id)
    /\ lastCall' = Call("insert_exploitation_tree", NULL, 0, NULL, NULL, NULL, NULL, {})
    /\ UNCHANGED <<stage_log, deltaVars>>

----------------------------------------------------------------------------
(* stage_runner.handler, gate mode: log_stage_start, log_stage_pending_review,
   store_task_token, executed by one invocation *)
GateRegister(log, run_id, stage, task_token) ==
    StoreTaskToken(
        LogStagePendingReview(LogStageStart(log, run_id, stage), run_id, stage),
        run_id, stage, task_token)

handler_gate(run_id, stage, task_token) ==
    /\ Len(stage_log) < MaxLog
    /\ stage_log' = GateRegister(stage_log, run_id, stage, task_token)
    /\ lastCall' = StorageCall("handler_gate", run_id, stage, task_token)
    /\ UNCHANGED <<exploitation_trees, deltaVars>>

----------------------------------------------------------------------------
(* Delta processing: delta.py and the processing ledger of storage.py *)

MaxStageRuns == 2

CaseIds == {"c1", "c2"}
CaseTexts == {"a", "b"}
Characterizations == {"", "x"}
Thresholds == {1, 2}

(* quality_ids, in the order sorted() and ORDER BY quality_id give them *)
QualityOrder == <<"q1", "q2">>

QualityIds == {QualityOrder[i] : i \in DOMAIN QualityOrder}

(* the qualities whose review status or presence changes between runs *)
ReviewedQualities == {"q2"}

(* the policies stage 4 scores again between runs of stage 5 *)
RescoredPolicies == {"p1"}

(* Python's str() of a column value *)
Str(v) == IF v = NULL THEN "None" ELSE v

RECURSIVE Join(_, _)
(* sep.join(parts) *)
Join(parts, sep) ==
    IF parts = <<>> THEN ""
    ELSE IF Len(parts) = 1 THEN Head(parts)
    ELSE Head(parts) \o sep \o Join(Tail(parts), sep)

(* sorted(ids) of a set of quality ids *)
Sorted(ids) == SelectSeq(QualityOrder, LAMBDA q : q \in ids)

(* hashlib.sha256(text).hexdigest()[:12]: distinct texts of the model have
   distinct digests *)
Sha12(text) == "sha:" \o text

(* delta.compute_hash: the digest of the parts joined by "|" *)
compute_hash(parts) == Sha12(Join(parts, "|"))

(* delta.taxonomy_fingerprint(taxonomy) *)
taxonomy_fingerprint(approved) == Sha12(Join(Sorted(approved), ":"))

(* storage.get_calibration(): the row, or None; None is the empty set here *)
Threshold(calibration_row) == (CHOOSE row \in calibration_row : TRUE).threshold

(* delta.calibration_fingerprint(calibration) *)
calibration_fingerprint(calibration_row) ==
    IF calibration_row # {} THEN ToString(Threshold(calibration_row)) ELSE "3"

(* delta.policy_quality_profile(policy_id, policy_scores) *)
policy_quality_profile(present) ==
    IF present # {} THEN Join(Sorted(present), ":") ELSE "none"

(* step_id of _store_tree: sha256(f"{policy_id}:step:{order}:{title[:50]}")[:12];
   the trees of the model have one step, of order 1 and title "t" *)
StepIdOf(policy_id) == Sha12(policy_id \o ":step:" \o ToString(1) \o ":" \o "t")

StepIds == {StepIdOf(p) : p \in Policies}

PolicyOfStep(step_id) == CHOOSE p \in Policies : StepIdOf(p) = step_id

(* the steps the external call of stage 5 can answer with *)
StepChoices == {[description |-> "d1", enabling_qualities |-> {"q1"}],
                [description |-> "d2", enabling_qualities |-> {"q1", "q2"}]}

(* storage.get_processing_hashes(stage).get(entity_id) *)
StoredHash(ledger, stage, entity_id) ==
    IF <<stage, entity_id>> \in DOMAIN ledger
    THEN ledger[<<stage, entity_id>>].input_hash
    ELSE NULL

(* storage.record_processing: INSERT .. ON CONFLICT (stage, entity_id) DO UPDATE *)
(* mutant: ON CONFLICT .. DO UPDATE SET input_hash only *)
RecordProcessing_HashOnly(ledger, stage, entity_id, input_hash, run_id) ==
    [k \in DOMAIN ledger \cup {<<stage, entity_id>>} |->
        IF k = <<stage, entity_id>>
        THEN [input_hash |-> input_hash,
              run_id |-> IF k \in DOMAIN ledger THEN ledger[k].run_id ELSE run_id]
        ELSE ledger[k]]

RecordProcessing(ledger, stage, entity_id, input_hash, run_id) ==
    [k \in DOMAIN ledger \cup {<<stage, entity_id>>} |->
        IF k = <<stage, entity_id>>
        THEN [input_hash |-> input_hash, run_id |-> run_id]
        ELSE ledger[k]]

(* mutant: every entity counts as changed *)
Changed_Always(stored_hash, h) == TRUE

(* mutant: only entities without a ledger row count as changed *)
Changed_OnlyNew(stored_hash, h) == stored_hash = NULL

(* the comparison of the delta loops: stored.get(id) != h *)
Changed(stored_hash, h) == stored_hash # h

(* how the processing of one entity can end:
   ok             the external call answers and the output is stored
   empty          the external call answers with nothing to store
   invoke_raises  the external call raises
   store_raises   the first insert of the output raises
   store_partial  a later insert of the output raises *)
EntityOutcomes == {"ok", "empty", "invoke_raises", "store_raises", "store_partial"}

Raises(outcome) == outcome \in {"invoke_raises", "store_raises", "store_partial"}

(* History record of a delta stage run.
   candidates : the entities whose digest the run computed
   digest     : the digest computed for each candidate
   before     : the ledger when the run loaded it
   prepared   : the entities for which an external call outside the delta
                check was made (stage 4's characterization)
   invoked    : the entities for which the delta-guarded external call was made
   stored     : the entities whose output the run finished storing
   recorded   : the entities for which record_processing was executed
   raised     : the entities whose external call or storing raised *)
NoRun ==
    [stage |-> 0, run_id |-> NULL, candidates |-> {}, digest |-> <<>>,
     before |-> <<>>, prepared |-> {}, invoked |-> {}, stored |-> {},
     recorded |-> {}, raised |-> {}]

(* the progress of a run through its entities *)
Progress(ledger, out) ==
    [ledger |-> ledger, out |-> out, invoked |-> {}, stored |-> {},
     recorded |-> {}, raised |-> {}, count |-> 0]

RunRecord(stage, run_id, candidates, digest, before, prepared, acc) ==
    [stage |-> stage, run_id |-> run_id, candidates |-> candidates,
     digest |-> digest, before |-> before, prepared |-> prepared,
     invoked |-> acc.invoked, stored |-> acc.stored, recorded |-> acc.recorded,
     raised |-> acc.raised]

(* the state of the pipeline tables before any stage has run *)
CorpusEmpty ==
    /\ cases = [c \in CaseIds |-> "a"]
    /\ taxonomy = {"q1"}
    /\ convergence_scores = {}
    /\ calibration = {}
    /\ policies = [p \in Policies |-> NULL]
    /\ quality_assessments = {}
    /\ policy_scores = [p \in Policies |-> {}]
    /\ exploitation_steps = [p \in Policies |-> {}]
    /\ detection_patterns = {}

----------------------------------------------------------------------------
(* The schema migrator: storage._migrate, called by SVAPStorage.__init__ *)

(* the cold starts of one instance *)
MaxColdStarts == 1

(* the Lambda instances (processes) that open the store *)
Instances == {"i1", "i2"}

SCHEMA_VERSION == 6

(* the versions of the MIGRATIONS entries, in list order *)
MIGRATIONS == <<1, 2, 3, 4, 5, 6>>

(* _get_connection: psycopg2.connect, then autocommit = True *)
NewConnection == [autocommit |-> TRUE, in_transaction |-> FALSE]

(* a process that has not constructed SVAPStorage: index is the position of the
   migration loop in MIGRATIONS, executed the versions whose statements the open
   transaction has run, deleted the ledger rows its DELETE has removed *)
NewProcess(starts) ==
    [pc |-> "idle", old_autocommit |-> TRUE, current |-> 0, index |-> 1,
     executed |-> <<>>, deleted |-> {}, starts |-> starts]

NoMigrate ==
    [outcome |-> "none", began_at |-> {}, attempted |-> FALSE, acquired |-> FALSE,
     executed |-> <<>>, wrote |-> FALSE, failed |-> FALSE]

(* what SELECT version FROM _svap_schema WHERE id = 1 fetches after
   CREATE TABLE IF NOT EXISTS and INSERT (1, 0) ON CONFLICT DO NOTHING *)
Current(rows) == IF rows = {} THEN 0 ELSE CHOOSE v \in rows : TRUE

(* current >= SCHEMA_VERSION (and row[0] >= SCHEMA_VERSION) *)
AtTarget(current) == current >= SCHEMA_VERSION

(* mutant: the loop applies every entry *)
Pending_All(version, current) == TRUE

(* the loop's test: if version <= current: continue *)
(* mutant: the loop does not skip the entry of the stored version *)
Pending_Inclusive(version, current) == ~(version < current)

Pending(version, current) == ~(version <= current)

(* SELECT pg_try_advisory_xact_lock(42): granted when no other session holds it *)
TryAdvisoryLock(holders) == holders = {}

(* conn.commit() and conn.rollback() end the transaction *)
EndTransaction(c) == [c EXCEPT !.in_transaction = FALSE]

(* conn.autocommit = value: psycopg2 refuses the assignment while the connection
   is inside a transaction (ProgrammingError) *)
SetAutocommit(c, value) ==
    IF c.in_transaction
    THEN [conn |-> c, raised |-> TRUE]
    ELSE [conn |-> [c EXCEPT !.autocommit = value], raised |-> FALSE]

(* the rows "DELETE FROM stage_processing_log WHERE stage IN (5, 6)" removes,
   the last statement of the v6 entry *)
InvalidatedRows(ledger) == {k \in DOMAIN ledger : k[1] \in {5, 6}}

Without(ledger, keys) == [k \in DOMAIN ledger \ keys |-> ledger[k]]

(* stage_processing_log is created by the v4 entry *)
LedgerExists(rows) == rows # {} /\ Current(rows) >= 4

(* the entries of `executed` that are `version` *)
Executions(executed, version) ==
    Cardinality({n \in 1..Len(executed) : executed[n] = version})

(* a store at SCHEMA_VERSION and no instance starting *)
StoreMigrated ==
    /\ schema_version = {SCHEMA_VERSION}
    /\ applied = [v \in 1..SCHEMA_VERSION |-> 1]
    /\ advisory_lock = {}
    /\ conn = [i \in Instances |-> NewConnection]
    /\ proc = [i \in Instances |-> NewProcess(0)]
    /\ schema_ready = [i \in Instances |-> FALSE]
    /\ lastMigrate = [i \in Instances |-> NoMigrate]

----------------------------------------------------------------------------
(* The parallel dispatcher: parallel.run_parallel_llm *)

(* the jobs of one batch *)
MaxJobs == 3

(* the values of max_concurrency *)
MaxWorkers == 2

JobLabels == <<"a", "b", "c", "d">>

(* what on_result returns for a job whose call succeeded *)
Counts == {1, 2}

(* a job: its label, the way its invoke_fn and on_result calls end, and the
   count on_result returns; two jobs may carry the same label *)
JobChoices(n) ==
    {[label |-> l, behaviour |-> b, count |-> c] :
        l \in {JobLabels[n], JobLabels[1]},
        b \in {"ok", "invoke_raises", "on_result_raises"},
        c \in Counts}

Batches(n) ==
    {js \in [1..n -> UNION {JobChoices(k) : k \in 1..n}] :
        \A k \in 1..n : js[k] \in JobChoices(k) /\ (js[k].behaviour # "ok" => js[k].count = 1)}

(* the futures in state st *)
FuturesIn(fs, st) == {j \in DOMAIN fs : fs[j] = st}

(* the work queue of ThreadPoolExecutor is first in, first out *)
NextQueued(fs) == CHOOSE j \in FuturesIn(fs, "pending") : \A k \in FuturesIn(fs, "pending") : j <= k

(* mutant: one thread per submitted job, whatever max_workers is *)
WorkerFree_Unbounded(fs, mc) == TRUE

(* ThreadPoolExecutor(max_workers=mc): a queued job starts only on one of the mc
   worker threads, each of which runs one invoke_fn call at a time *)
WorkerFree(fs, mc) == Cardinality(FuturesIn(fs, "running")) < mc

(* mutant: on_result is attached to the future and run by the pool thread that
   completed it *)
CallerFree_Pool(fs) == TRUE

(* the for loop over as_completed runs in the calling thread alone: it takes the
   next future when the body of the previous iteration has ended *)
CallerFree(fs) == FuturesIn(fs, "handling") = {}

(* mutant: the loop ends after the first future *)
AllYielded_First(fs) == FuturesIn(fs, "yielded") # {} \/ fs = <<>>

(* as_completed has yielded every future *)
AllYielded(fs) == \A j \in DOMAIN fs : fs[j] = "yielded"

(* the loop state after a future: total, failed, and whether an exception left
   the loop *)
Loop(t, f, r) == [total |-> t, failed |-> f, raised |-> r]

(* mutant: the count of the job replaces the total *)
Handle_NoSum(job, t, f) ==
    IF job.behaviour = "ok" THEN Loop(job.count, f, FALSE)
    ELSE Loop(t, Append(f, job.label), FALSE)

(* mutant: no except clause around future.result() *)
Handle_Propagates(job, t, f) ==
    IF job.behaviour = "ok" THEN Loop(t + job.count, f, FALSE)
    ELSE IF job.behaviour = "invoke_raises" THEN Loop(t, f, TRUE)
    ELSE Loop(t, Append(f, job.label), FALSE)

(* mutant: the except clause covers future.result() only; an exception of
   on_result is dropped *)
Handle_InvokeOnly(job, t, f) ==
    IF job.behaviour = "ok" THEN Loop(t + job.count, f, FALSE)
    ELSE IF job.behaviour = "invoke_raises" THEN Loop(t, Append(f, job.label), FALSE)
    ELSE Loop(t, f, FALSE)

(* the body of the as_completed loop for one future: result = future.result();
   count = on_result(result, ctx); total += count; on any Exception
   failed.append(label) *)
Handle(job, t, f) ==
    IF job.behaviour = "ok" THEN Loop(t + job.count, f, FALSE)
    ELSE Loop(t, Append(f, job.label), FALSE)

(* no batch has been dispatched *)
----------------------------------------------------------------------------
(* Stage attempts of concurrently running processes (a Lambda invocation of
   stage_runner.handler, a CLI call of orchestrator._run_stage), all on one store.
   via   : "handler" for stage_runner.handler, "run_stage" for _run_stage alone
   row   : the id of the stage_log row the attempt's log_stage_start inserted
   error : str(e) of the exception the call raised, NULL if none *)

Processes == {"w1", "w2"}

MaxRows == 3

Entries == {"handler", "run_stage"}

(* stage 1 has no prerequisite, stage 5 needs stage 4 and is a human gate *)
AttemptStages == {1, 5}

NoAttempt ==
    [pc |-> "idle", via |-> "none", run_id |-> NULL, stage |-> 0, row |-> {},
     error |-> NULL]

(* the process is not inside a call *)
Outside(a) == a.pc \in {"idle", "returned", "raised", "killed"}

(* a stage_log row written by a run of the stage before *)
EarlierRow(run_id, stage, status) ==
    [run_id |-> run_id, stage |-> stage, status |-> status, error_message |-> NULL,
     task_token |-> NULL]

(* orchestrator.cmd_run, --stage all: the invocations so far, and for the current
   one the loop variable stage_num, the stages whose logic it invoked, the
   prerequisite status it read before each, and the status each stage had when
   its logic returned *)
MaxCmdRuns == 2

NoCmdRun ==
    [pc |-> "idle", run_id |-> NULL, gates |-> {}, stage_num |-> 0, invoked |-> <<>>,
     seen |-> <<>>, ended |-> <<>>, runs |-> 0]

(* The human gate under concurrency: one invocation of stage_runner.handler in
   gate mode and the requests to api._approve_stage, all for one (run, stage).
   gate     : position of the gate invocation
   token    : the task token the invocation was given
   row      : the id of the stage_log row its log_stage_start inserted
   requests : request -> its position, the position of the gate invocation
              when the request read the status, and the task token it read
   sent     : the task tokens passed to sfn.send_task_success, in order *)
Requests == {"a1", "a2"}

NoRequest == [pc |-> "idle", gate |-> NULL, task_token |-> NULL]

NoApprovals(stage) ==
    [stage |-> stage, gate |-> "idle", token |-> NULL, row |-> {},
     requests |-> [a \in Requests |-> NoRequest], sent |-> <<>>]

(* no record_processing call so far *)
NoRecord ==
    [writer |-> "none", stage |-> 0, entity_id |-> NULL, input_hash |-> NULL,
     run_id |-> NULL, replaced |-> {}]

(* no process is inside a stage's run *)
NoAttempts ==
    /\ attempts = [w \in Processes |-> NoAttempt]
    /\ cli = NoCmdRun
    /\ lastRecord = NoRecord
    /\ approvals = NoApprovals(2)

DispatcherIdle ==
    /\ jobs = <<>>
    /\ max_concurrency = 1
    /\ futures = <<>>
    /\ total = 0
    /\ failed = <<>>
    /\ dispatcher = "idle"
    /\ calls = <<>>

----------------------------------------------------------------------------
Init ==
    /\ stage_log = <<>>
    /\ exploitation_trees = [p \in Policies |-> "absent"]
    /\ lastCall = Call("init", NULL, 0, NULL, NULL, NULL, NULL, {})
    /\ part = "stage_log"
    /\ CorpusEmpty
    /\ stage_processing_log = <<>>
    /\ lastRun = NoRun
    /\ StoreMigrated
    /\ DispatcherIdle
    /\ NoAttempts

Next ==
    \/ \E r \in Runs, s \in human_gates : log_stage_start(r, s)
    \/ \E r \in Runs, s \in human_gates : log_stage_complete(r, s)
    \/ \E r \in Runs, s \in human_gates, e \in Errors : log_stage_failed(r, s, e)
    \/ \E r \in Runs, s \in human_gates : log_stage_pending_review(r, s)
    \/ \E r \in Runs, s \in human_gates : approve_stage(r, s)
    \/ \E r \in Runs, s \in human_gates, t \in Tokens : store_task_token(r, s, t)
    \/ \E r \in Runs, s \in human_gates, t \in Tokens : handler_gate(r, s, t)
    \/ \E p \in Policies : insert_exploitation_tree(p)

Spec == Init /\ [][Next]_vars

----------------------------------------------------------------------------
(* Orchestrator: orchestrator._run_stage, stage_runner.handler (stage mode),
   orchestrator.cmd_approve.  A stage's business logic is a collaborator: it is
   modelled by the stage-log calls every STAGES[n].run makes and by the way it
   ends.  Outcome "killed" is a process killed mid-stage (a Lambda timeout):
   nothing after log_stage_start runs. *)

Outcomes == {"completed", "failed", "pending_review", "killed"}

Satisfied(status) == status \in {"completed", "approved"}

(* stage3_scoring.run / stage6_detection.run re-check their predecessor after
   log_stage_start and raise ValueError; stage 6 also needs an approved tree *)
StageCheckFails(log, trees, run_id, stage) ==
    \/ stage = 3 /\ ~Satisfied(get_stage_status(log, run_id, 2))
    \/ stage = 6 /\ ~Satisfied(get_stage_status(log, run_id, 5))
    \/ stage = 6 /\ \A p \in DOMAIN trees : trees[p] # "approved"

(* how run() of stage n can end: only stages 2 and 5 call log_stage_pending_review *)
OutcomesOf(stage) ==
    IF stage \in {2, 5} THEN Outcomes ELSE Outcomes \ {"pending_review"}

(* the exception STAGES[stage].run raises to its caller, NULL if it returns (or
   the process is killed) *)
StageError(log, trees, run_id, stage, outcome, error) ==
    CASE outcome = "killed" -> NULL
      [] outcome # "killed" /\ StageCheckFails(log, trees, run_id, stage) -> "ValueError"
      [] OTHER -> IF outcome = "failed" THEN error ELSE NULL

(* the stage log after STAGES[stage].run: log_stage_start, then the try body,
   whose exceptions go to log_stage_failed(run_id, stage, str(e)) *)
StageRunLog(log, trees, run_id, stage, outcome, error) ==
    LET started == LogStageStart(log, run_id, stage)
        exc == StageError(started, trees, run_id, stage, outcome, error)
    IN  CASE outcome = "killed" -> started
          [] outcome # "killed" /\ exc # NULL -> LogStageFailed(started, run_id, stage, exc)
          [] outcome = "completed" /\ exc = NULL -> LogStageComplete(started, run_id, stage)
          [] outcome = "pending_review" /\ exc = NULL ->
                LogStagePendingReview(started, run_id, stage)

(* stage 5 stores its new trees as drafts before it asks for review *)
StageRunTrees(trees, stage, outcome, policy_id) ==
    IF stage = 5 /\ outcome = "pending_review"
    THEN InsertExploitationTree(trees, policy_id)
    ELSE trees

(* _run_stage: the prerequisite check *)
PrerequisiteBlocks(log, run_id, stage) ==
    stage > 1 /\ ~Satisfied(get_stage_status(log, run_id, stage - 1))

(* Python's str() of a status: None prints as None *)
StatusStr(status) == IF status = NULL THEN "None" ELSE status

(* RuntimeError(f"Stage {stage - 1} status is '{prev_status}'. It must be ...") *)
PrerequisiteError(stage, prev_status) ==
    "Stage " \o ToString(stage - 1) \o " status is '" \o StatusStr(prev_status)
        \o "'. It must be 'completed' or 'approved' before running stage "
        \o ToString(stage) \o "."

OrchCall(op, run_id, stage, error, invoked) ==
    Call(op, run_id, stage, get_stage_status(stage_log, run_id, stage),
         IF stage > 1 THEN get_stage_status(stage_log, run_id, stage - 1) ELSE NULL,
         NULL, error, invoked)

(* orchestrator._run_stage called by the API layer *)
run_stage(run_id, stage, outcome, error, policy_id) ==
    /\ UNCHANGED deltaVars
    /\ IF PrerequisiteBlocks(stage_log, run_id, stage)
       THEN /\ lastCall' = OrchCall("_run_stage", run_id, stage,
                   PrerequisiteError(stage, get_stage_status(stage_log, run_id, stage - 1)),
                   {})
            /\ UNCHANGED <<stage_log, exploitation_trees>>
       ELSE /\ Len(stage_log) < MaxAttempts
            /\ stage_log' = StageRunLog(stage_log, exploitation_trees, run_id, stage,
                                        outcome, error)
            /\ exploitation_trees' = StageRunTrees(exploitation_trees, stage, outcome,
                                                   policy_id)
            /\ lastCall' = OrchCall("_run_stage", run_id, stage,
                   StageError(LogStageStart(stage_log, run_id, stage), exploitation_trees,
                              run_id, stage, outcome, error),
                   {stage})

(* stage_runner.handler, stage mode: _run_stage inside try; on any exception
   log_stage_failed(run_id, stage, str(e)) and re-raise *)
handler_stage(run_id, stage, outcome, error, policy_id) ==
    /\ UNCHANGED deltaVars
    /\ IF PrerequisiteBlocks(stage_log, run_id, stage)
       THEN LET exc == PrerequisiteError(stage,
                           get_stage_status(stage_log, run_id, stage - 1))
            IN  /\ stage_log' = LogStageFailed(stage_log, run_id, stage, exc)
                /\ lastCall' = OrchCall("handler_stage", run_id, stage, exc, {})
                /\ UNCHANGED exploitation_trees
       ELSE /\ Len(stage_log) < MaxAttempts
            /\ LET exc == StageError(LogStageStart(stage_log, run_id, stage),
                                     exploitation_trees, run_id, stage, outcome, error)
                   after == StageRunLog(stage_log, exploitation_trees, run_id, stage,
                                        outcome, error)
               IN  /\ stage_log' = IF exc # NULL
                                   THEN LogStageFailed(after, run_id, stage, exc)
                                   ELSE after
                   /\ lastCall' = OrchCall("handler_stage", run_id, stage, exc, {stage})
            /\ exploitation_trees' = StageRunTrees(exploitation_trees, stage, outcome,
                                                   policy_id)

(* orchestrator.cmd_approve: approve_stage only when the status is pending_review *)
cmd_approve(run_id, stage) ==
    /\ lastCall' = StorageCall("cmd_approve", run_id, stage, NULL)
    /\ UNCHANGED deltaVars
    /\ IF get_stage_status(stage_log, run_id, stage) = "pending_review"
       THEN /\ stage_log' = ApproveStageLog(stage_log, run_id, stage)
            /\ exploitation_trees' = ApproveStageTrees(exploitation_trees, stage)
       ELSE UNCHANGED <<stage_log, exploitation_trees>>

NextOrch ==
    \/ \E r \in Runs, s \in STAGES, e \in Errors, p \in Policies :
            \E o \in OutcomesOf(s) : run_stage(r, s, o, e, p)
    \/ \E r \in Runs, s \in STAGES, e \in Errors, p \in Policies :
            \E o \in OutcomesOf(s) : handler_stage(r, s, o, e, p)
    \/ \E r \in Runs, s \in STAGES : cmd_approve(r, s)

SpecOrch == Init /\ [][NextOrch]_vars

----------------------------------------------------------------------------
(* Delta stages: stages/stage3_scoring.py, stage4_scanning.py,
   stage5_prediction.py, stage6_detection.py.  One action is one call of
   run(storage, client, run_id, config).  The external collaborator is
   modelled by the way each of its calls ends (EntityOutcomes) and by what it
   answers; the tables the run reads are read as they are when it starts. *)

DeltaStages == {3, 4, 5, 6}

(* the stage log of run r1 once the gate of stage 2 has been passed *)
GateApproved ==
    ApproveStageLog(LogStagePendingReview(LogStageStart(<<>>, "r1", 2), "r1", 2),
                    "r1", 2)

(* the number of times run() of the stage has been entered *)
RunsStarted(stage) == Cardinality({i \in DOMAIN stage_log : stage_log[i].stage = stage})

Called(acc, entity_id) == [acc EXCEPT !.invoked = @ \cup {entity_id}]

Raised(acc, entity_id) == [acc EXCEPT !.raised = @ \cup {entity_id}]

Stored(acc, entity_id, out, n) ==
    [acc EXCEPT !.stored = @ \cup {entity_id}, !.out = out, !.count = @ + n]

(* mutant: record_processing in a finally clause, executed after a raise too *)
RecordAfterStore_Finally(acc, stage, entity_id, h, run_id) ==
    [acc EXCEPT !.ledger = RecordProcessing(@, stage, entity_id, h, run_id),
                !.recorded = @ \cup {entity_id}]

(* storage.record_processing(stage, id, h, run_id) as the statement that follows
   the store step: not reached when the call or the store step raised *)
RecordAfterStore(acc, stage, entity_id, h, run_id) ==
    IF entity_id \in acc.raised THEN acc
    ELSE [acc EXCEPT !.ledger = RecordProcessing(@, stage, entity_id, h, run_id),
                     !.recorded = @ \cup {entity_id}]

(* -- stage 3 -- *)

(* h = delta.compute_hash(case["enabling_condition"], tax_fp) *)
CaseDigest(cs, approved, case_id) ==
    compute_hash(<<Str(cs[case_id]), taxonomy_fingerprint(approved)>>)

(* _score_case: invoke_json, then insert_convergence_score per quality;
   acc.out is convergence_scores *)
score_case(acc, case_id, outcome) ==
    LET called == Called(acc, case_id)
    IN  CASE outcome \in {"invoke_raises", "store_raises"} -> Raised(called, case_id)
          [] outcome = "store_partial" ->
                Raised([called EXCEPT !.out = @ \cup {case_id}], case_id)
          [] outcome = "empty" -> Stored(called, case_id, called.out, 0)
          [] outcome = "ok" -> Stored(called, case_id, called.out \cup {case_id}, 1)

RECURSIVE ScoreCases(_, _, _, _, _)
(* for case, h in cases_to_score: _score_case(..); record_processing(3, ..);
   an exception leaves the loop *)
ScoreCases(acc, cases_to_score, digest, outcome, run_id) ==
    IF cases_to_score = <<>> \/ acc.raised # {} THEN acc
    ELSE LET c == Head(cases_to_score)
         IN  ScoreCases(RecordAfterStore(score_case(acc, c, outcome[c]),
                                         3, c, digest[c], run_id),
                        Tail(cases_to_score), digest, outcome, run_id)

Stage2Error(status) ==
    "Stage 2 status is '" \o StatusStr(status)
        \o "'. Taxonomy must be approved before scoring. "
        \o "Run: python -m svap.orchestrator approve --stage 2"

(* stage3_scoring.run; get_cases() returns the cases in the sequence order;
   cal_outcome is the way the calibration call ends, cal_threshold its answer *)
Stage3Run(log, cs, approved, scores, calibration_row, ledger, run_id, order, outcome, cal_outcome, cal_threshold, error) ==
    LET started == LogStageStart(log, run_id, 3)
        stage2_status == get_stage_status(started, run_id, 2)
        digest == [c \in CaseIds |-> CaseDigest(cs, approved, c)]
        cases_to_score ==
            SelectSeq(order, LAMBDA c : Changed(StoredHash(ledger, 3, c), digest[c]))
        none == Progress(ledger, scores)
        acc == ScoreCases(none, cases_to_score, digest, outcome, run_id)
        Result(l, t, candidates, a) ==
            [log |-> l, scores |-> a.out, calibration |-> t, ledger |-> a.ledger,
             run |-> RunRecord(3, run_id, candidates,
                               [c \in candidates |-> digest[c]], ledger, {}, a)]
    IN  CASE ~Satisfied(stage2_status) ->
                Result(LogStageFailed(started, run_id, 3, Stage2Error(stage2_status)),
                       calibration_row, {}, none)
          [] Satisfied(stage2_status) /\ approved = {} ->
                Result(LogStageFailed(started, run_id, 3,
                            "Need both cases (Stage 1) and taxonomy (Stage 2)."),
                       calibration_row, {}, none)
          [] Satisfied(stage2_status) /\ approved # {} /\ cases_to_score = <<>> ->
                Result(LogStageComplete(started, run_id, 3), calibration_row, CaseIds,
                       none)
          [] OTHER ->
                IF acc.raised # {} \/ Raises(cal_outcome)
                THEN Result(LogStageFailed(started, run_id, 3, error),
                            calibration_row, CaseIds, acc)
                ELSE Result(LogStageComplete(started, run_id, 3),
                            {[threshold |-> cal_threshold]}, CaseIds, acc)

Orders(S) == {o \in [1..Cardinality(S) -> S] : \A e \in S : \E i \in DOMAIN o : o[i] = e}

(* the cases the delta loop of stage 3 selects *)
CasesToScore(cs, approved, ledger) ==
    {c \in CaseIds : Changed(StoredHash(ledger, 3, c), CaseDigest(cs, approved, c))}

stage3_run(run_id, cal_outcome, cal_threshold, error) ==
    /\ part = "scoring"
    /\ RunsStarted(3) < MaxStageRuns
    /\ \E order \in Orders(CaseIds),
          outcome \in [CasesToScore(cases, taxonomy, stage_processing_log)
                            -> EntityOutcomes] :
       LET r == Stage3Run(stage_log, cases, taxonomy, convergence_scores, calibration,
                          stage_processing_log, run_id, order, outcome, cal_outcome,
                          cal_threshold, error)
       IN  /\ stage_log' = r.log
           /\ convergence_scores' = r.scores
           /\ calibration' = r.calibration
           /\ stage_processing_log' = r.ledger
           /\ lastRun' = r.run
    /\ UNCHANGED <<exploitation_trees, lastCall, part, attemptVars, parallelVars, migrateVars, cases, taxonomy, policies,
                   quality_assessments, policy_scores, exploitation_steps,
                   detection_patterns>>

(* storage.insert_case: INSERT .. ON CONFLICT (case_id) DO UPDATE, a case
   extracted again with another enabling_condition *)
insert_case(case_id, enabling_condition) ==
    /\ part = "scoring"
    /\ cases' = [cases EXCEPT ![case_id] = enabling_condition]
    /\ lastRun' = NoRun
    /\ UNCHANGED <<logVars, part, attemptVars, parallelVars, migrateVars, taxonomy, convergence_scores, calibration, policies,
                   quality_assessments, policy_scores, exploitation_steps,
                   detection_patterns, stage_processing_log>>

(* storage.update_quality_review(quality_id, status) *)
update_quality_review(quality_id, status) ==
    /\ part \in {"scoring", "scanning"}
    /\ taxonomy' = IF status = "approved" THEN taxonomy \cup {quality_id}
                   ELSE taxonomy \ {quality_id}
    /\ lastRun' = NoRun
    /\ UNCHANGED <<logVars, part, attemptVars, parallelVars, migrateVars, cases, convergence_scores, calibration, policies,
                   quality_assessments, policy_scores, exploitation_steps,
                   detection_patterns, stage_processing_log>>

(* -- stage 4 -- *)

(* the present qualities the scoring call of stage 4 can answer with *)
ScoreChoices == {{"q1"}}

(* h = delta.compute_hash(policy.get("structural_characterization", ""), tax_fp) *)
ScanDigest(pols, approved, policy_id) ==
    compute_hash(<<Str(pols[policy_id]), taxonomy_fingerprint(approved)>>)

(* if policy.get("structural_characterization"): None and "" are falsy *)
Characterized(pols, policy_id) == pols[policy_id] \notin {NULL, ""}

(* _characterize_policy: nothing when characterized; else client.invoke, then
   insert_policy with the answer; acc.out is the policies table *)
characterize_policy(acc, policy_id, script) ==
    IF Characterized(acc.out, policy_id) THEN acc
    ELSE LET called == Called(acc, policy_id)
         IN  IF Raises(script[policy_id].outcome) THEN Raised(called, policy_id)
             ELSE Stored(called, policy_id,
                         [called.out EXCEPT ![policy_id] = script[policy_id].text], 1)

RECURSIVE CharacterizeAll(_, _, _)
(* for policy in policies: _characterize_policy(..); an exception leaves the loop *)
CharacterizeAll(acc, order, script) ==
    IF order = <<>> \/ acc.raised # {} THEN acc
    ELSE CharacterizeAll(characterize_policy(acc, Head(order), script),
                         Tail(order), script)

(* _score_policy: invoke_json, then insert_policy_score per quality; acc.out is
   policy_scores; a store that raises after its first insert has written the row
   of the first quality *)
score_policy(acc, policy_id, outcome, present) ==
    LET called == Called(acc, policy_id)
        first == {QualityOrder[1]}
    IN  CASE outcome \in {"invoke_raises", "store_raises"} -> Raised(called, policy_id)
          [] outcome = "store_partial" ->
                Raised([called EXCEPT !.out[policy_id] =
                            (@ \ first) \cup (present \cap first)], policy_id)
          [] outcome = "empty" -> Stored(called, policy_id, called.out, 0)
          [] outcome = "ok" ->
                Stored(called, policy_id,
                       [called.out EXCEPT ![policy_id] = present], 1)

RECURSIVE ScorePolicies(_, _, _, _, _, _)
(* for policy, h in delta_policies: _score_policy(..); record_processing(4, ..);
   an exception leaves the loop *)
ScorePolicies(acc, delta_policies, digest, outcome, present, run_id) ==
    IF delta_policies = <<>> \/ acc.raised # {} THEN acc
    ELSE LET p == Head(delta_policies)
         IN  ScorePolicies(RecordAfterStore(score_policy(acc, p, outcome[p], present[p]),
                                            4, p, digest[p], run_id),
                           Tail(delta_policies), digest, outcome, present, run_id)

(* the policies _filter_changed_policies selects among those without deep
   research assessments *)
PoliciesToScore(pols, approved, assessed, ledger) ==
    {p \in Policies \ assessed :
        Changed(StoredHash(ledger, 4, p), ScanDigest(pols, approved, p))}

(* stage4_scanning.run; get_policies() returns the policies in the sequence order *)
Stage4Run(log, pols, approved, assessed, scores, ledger, run_id, order, char_script, outcome, present, error) ==
    LET started == LogStageStart(log, run_id, 4)
        chars == CharacterizeAll(Progress(ledger, pols), order, char_script)
        policies_to_score == Policies \ assessed
        digest == [p \in policies_to_score |-> ScanDigest(chars.out, approved, p)]
        to_score == PoliciesToScore(chars.out, approved, assessed, ledger)
        delta_policies == SelectSeq(order, LAMBDA p : p \in to_score)
        none == Progress(ledger, scores)
        acc == ScorePolicies(none, delta_policies, digest, outcome, present, run_id)
        Result(l, candidates, a) ==
            [log |-> l, policies |-> chars.out, scores |-> a.out, ledger |-> a.ledger,
             run |-> RunRecord(4, run_id, candidates,
                               [p \in candidates |-> digest[p]], ledger,
                               chars.invoked, a)]
    IN  CASE approved = {} ->
                [log |-> LogStageFailed(started, run_id, 4,
                            "No taxonomy found. Run Stages 1-3 first."),
                 policies |-> pols, scores |-> scores, ledger |-> ledger,
                 run |-> RunRecord(4, run_id, {}, <<>>, ledger, {}, none)]
          [] approved # {} /\ chars.raised # {} ->
                Result(LogStageFailed(started, run_id, 4, error), {}, none)
          [] approved # {} /\ chars.raised = {} /\ to_score = {} ->
                Result(LogStageComplete(started, run_id, 4), policies_to_score, none)
          [] OTHER ->
                Result(IF acc.raised # {}
                       THEN LogStageFailed(started, run_id, 4, error)
                       ELSE LogStageComplete(started, run_id, 4),
                       policies_to_score, acc)

(* the policies stage 4 selects for scoring once its characterization loop has
   run; none when that loop raised *)
ScoredAfter(pols, order, char_script, approved, assessed, ledger) ==
    LET chars == CharacterizeAll(Progress(ledger, pols), order, char_script)
    IN  IF chars.raised # {} THEN {}
        ELSE PoliciesToScore(chars.out, approved, assessed, ledger)

(* what the characterization call can do and answer *)
CharScripts ==
    {[outcome |-> "ok", text |-> t] : t \in Characterizations}
        \cup {[outcome |-> o, text |-> ""] : o \in {"invoke_raises", "store_raises"}}

stage4_run(run_id, error) ==
    /\ part = "scanning"
    /\ RunsStarted(4) < MaxStageRuns
    /\ \E order \in Orders(Policies),
          char_script \in [{p \in Policies : ~Characterized(policies, p)}
                                -> CharScripts] :
       \E outcome \in [ScoredAfter(policies, order, char_script, taxonomy,
                                   quality_assessments, stage_processing_log)
                            -> EntityOutcomes] :
       \E present \in [DOMAIN outcome -> ScoreChoices] :
       LET r == Stage4Run(stage_log, policies, taxonomy, quality_assessments,
                          policy_scores, stage_processing_log, run_id, order,
                          char_script, outcome, present, error)
       IN  /\ stage_log' = r.log
           /\ policies' = r.policies
           /\ policy_scores' = r.scores
           /\ stage_processing_log' = r.ledger
           /\ lastRun' = r.run
    /\ UNCHANGED <<exploitation_trees, lastCall, part, attemptVars, parallelVars, migrateVars, cases, taxonomy,
                   convergence_scores, calibration, quality_assessments,
                   exploitation_steps, detection_patterns>>

(* storage.insert_policy: INSERT .. ON CONFLICT (policy_id) DO UPDATE SET
   structural_characterization = EXCLUDED.structural_characterization, a policy
   loaded again from the seed *)
insert_policy(policy_id, structural_characterization) ==
    /\ part = "scanning"
    /\ policies' = [policies EXCEPT ![policy_id] = structural_characterization]
    /\ lastRun' = NoRun
    /\ UNCHANGED <<logVars, part, attemptVars, parallelVars, migrateVars, cases, taxonomy, convergence_scores, calibration,
                   quality_assessments, policy_scores, exploitation_steps,
                   detection_patterns, stage_processing_log>>

(* storage.upsert_quality_assessment: deep research assessed the policy *)
upsert_quality_assessment(policy_id) ==
    /\ part = "scanning"
    /\ quality_assessments' = quality_assessments \cup {policy_id}
    /\ lastRun' = NoRun
    /\ UNCHANGED <<logVars, part, attemptVars, parallelVars, migrateVars, cases, taxonomy, convergence_scores, calibration,
                   policies, policy_scores, exploitation_steps, detection_patterns,
                   stage_processing_log>>

(* the tables when stages 1 to 3 have run and the seed policies are loaded *)
InitScanning ==
    /\ part = "scanning"
    /\ stage_log = <<>>
    /\ exploitation_trees = [p \in Policies |-> "absent"]
    /\ lastCall = Call("init", NULL, 0, NULL, NULL, NULL, NULL, {})
    /\ cases = [c \in CaseIds |-> "a"]
    /\ taxonomy = {"q1"}
    /\ convergence_scores = CaseIds
    /\ calibration = {[threshold |-> 2]}
    /\ policies = [p \in Policies |-> NULL]
    /\ quality_assessments = {}
    /\ policy_scores = [p \in Policies |-> {}]
    /\ exploitation_steps = [p \in Policies |-> {}]
    /\ detection_patterns = {}
    /\ stage_processing_log = <<>>
    /\ lastRun = NoRun
    /\ StoreMigrated
    /\ DispatcherIdle
    /\ NoAttempts

(* -- stage 5 -- *)

(* threshold = calibration["threshold"] if calibration else 3 *)
RunThreshold(calibration_row) ==
    IF calibration_row # {} THEN Threshold(calibration_row) ELSE 3

(* high_risk: the profiles whose count of present qualities reaches the threshold *)
HighRisk(scores, calibration_row) ==
    {p \in Policies : Cardinality(scores[p]) >= RunThreshold(calibration_row)}

(* h = delta.compute_hash(quality_profile, cal_fp) *)
PolicyDigest(scores, calibration_row, policy_id) ==
    compute_hash(<<policy_quality_profile(scores[policy_id]),
                   calibration_fingerprint(calibration_row)>>)

(* the tables a run of stage 5 or 6 writes *)
Tables(trees, steps, patterns) == [trees |-> trees, steps |-> steps, patterns |-> patterns]

(* storage.delete_tree_for_policy: the stage-6 ledger rows of the tree's steps,
   then the tree; its steps and their patterns go by ON DELETE CASCADE *)
DeleteTreeForPolicy(acc, policy_id) ==
    LET step_ids == IF acc.out.steps[policy_id] # {} THEN {StepIdOf(policy_id)} ELSE {}
    IN  [acc EXCEPT
            !.ledger = [k \in DOMAIN @ \ ({6} \X step_ids) |-> @[k]],
            !.out = Tables([@.trees EXCEPT ![policy_id] = "absent"],
                           [@.steps EXCEPT ![policy_id] = {}],
                           @.patterns \ step_ids)]

RECURSIVE DeleteTrees(_, _)
(* for policy_id, _profile, _h in to_predict: storage.delete_tree_for_policy(policy_id) *)
DeleteTrees(acc, to_predict) ==
    IF to_predict = {} THEN acc
    ELSE LET p == CHOOSE q \in to_predict : TRUE
         IN  DeleteTrees(DeleteTreeForPolicy(acc, p), to_predict \ {p})

(* the job of one policy: _invoke_llm, then _store_tree (insert_exploitation_tree,
   then insert_exploitation_step per step, each in its own transaction) *)
store_tree(acc, policy_id, script) ==
    LET called == Called(acc, policy_id)
        tree == [called EXCEPT !.out.trees = InsertExploitationTree(@, policy_id)]
    IN  CASE script.outcome \in {"invoke_raises", "store_raises"} ->
                Raised(called, policy_id)
          [] script.outcome = "store_partial" -> Raised(tree, policy_id)
          [] script.outcome = "empty" -> Stored(tree, policy_id, tree.out, 0)
          [] script.outcome = "ok" ->
                Stored(tree, policy_id,
                       [tree.out EXCEPT !.steps[policy_id] = {script.step}], 1)

RECURSIVE PredictAll(_, _, _, _, _)
(* run_parallel_llm: every job is submitted; _on_result is _store_tree followed by
   record_processing(5, ..); an exception is caught per job *)
PredictAll(acc, batch, digest, script, run_id) ==
    IF batch = {} THEN acc
    ELSE LET p == CHOOSE q \in batch : TRUE
         IN  PredictAll(RecordAfterStore(store_tree(acc, p, script[p]),
                                         5, p, digest[p], run_id),
                        batch \ {p}, digest, script, run_id)

(* the policies the delta loop of stage 5 selects *)
PoliciesToPredict(scores, calibration_row, ledger) ==
    {p \in HighRisk(scores, calibration_row) :
        Changed(StoredHash(ledger, 5, p), PolicyDigest(scores, calibration_row, p))}

(* stage5_prediction.run.  get_policy_scores joins policies, so every to_predict
   policy is found in get_policies() read just before: no job is dropped. *)
Stage5Run(log, scores, calibration_row, tables, ledger, run_id, script) ==
    LET started == LogStageStart(log, run_id, 5)
        high_risk == HighRisk(scores, calibration_row)
        digest == [p \in high_risk |-> PolicyDigest(scores, calibration_row, p)]
        to_predict == PoliciesToPredict(scores, calibration_row, ledger)
        none == Progress(ledger, tables)
        acc == PredictAll(DeleteTrees(none, to_predict), to_predict, digest, script,
                          run_id)
        Result(l, candidates, a) ==
            [log |-> l, tables |-> a.out, ledger |-> a.ledger,
             run |-> RunRecord(5, run_id, candidates, digest, ledger, {}, a)]
    IN  CASE high_risk = {} -> Result(LogStageComplete(started, run_id, 5), {}, none)
          [] high_risk # {} /\ to_predict = {} ->
                Result(LogStageComplete(started, run_id, 5), high_risk, none)
          [] OTHER ->
                Result(IF acc.count > 0
                       THEN LogStagePendingReview(started, run_id, 5)
                       ELSE LogStageComplete(started, run_id, 5),
                       high_risk, acc)

(* what the external call of one job can do and answer *)
TreeScripts ==
    {[outcome |-> "ok", step |-> st] : st \in StepChoices}
        \cup {[outcome |-> o, step |-> CHOOSE st \in StepChoices : TRUE] :
                o \in EntityOutcomes \ {"ok"}}

stage5_run(run_id) ==
    /\ part = "prediction"
    /\ RunsStarted(5) < MaxStageRuns
    /\ \E script \in [PoliciesToPredict(policy_scores, calibration,
                                        stage_processing_log) -> TreeScripts] :
       LET r == Stage5Run(stage_log, policy_scores, calibration,
                          Tables(exploitation_trees, exploitation_steps,
                                 detection_patterns),
                          stage_processing_log, run_id, script)
       IN  /\ stage_log' = r.log
           /\ exploitation_trees' = r.tables.trees
           /\ exploitation_steps' = r.tables.steps
           /\ detection_patterns' = r.tables.patterns
           /\ stage_processing_log' = r.ledger
           /\ lastRun' = r.run
    /\ UNCHANGED <<lastCall, part, attemptVars, parallelVars, migrateVars, cases, taxonomy, convergence_scores, calibration,
                   policies, quality_assessments, policy_scores>>

(* -- stage 6 -- *)

(* h = delta.compute_hash(step["description"], quals_str) *)
StepDigest(step) ==
    compute_hash(<<Str(step.description), Join(Sorted(step.enabling_qualities), ":")>>)

(* the step row of a step_id *)
StepOf(steps, step_id) == CHOOSE st \in steps[PolicyOfStep(step_id)] : TRUE

(* _load_steps_from_trees(get_exploitation_trees(approved_only=True)) *)
ApprovedSteps(trees, steps) ==
    {StepIdOf(p) : p \in {q \in Policies : trees[q] = "approved" /\ steps[q] # {}}}

(* the job of one step: _invoke_llm, then _store_patterns *)
store_patterns(acc, step_id, outcome) ==
    LET called == Called(acc, step_id)
        pattern == [called EXCEPT !.out.patterns = @ \cup {step_id}]
    IN  CASE outcome \in {"invoke_raises", "store_raises"} -> Raised(called, step_id)
          [] outcome = "store_partial" -> Raised(pattern, step_id)
          [] outcome = "empty" -> Stored(called, step_id, called.out, 0)
          [] outcome = "ok" -> Stored(pattern, step_id, pattern.out, 1)

RECURSIVE DetectAll(_, _, _, _, _)
(* _run_parallel_detection: every job is submitted; _store_patterns is followed by
   record_processing(6, ..); an exception is caught per job *)
DetectAll(acc, batch, digest, outcome, run_id) ==
    IF batch = {} THEN acc
    ELSE LET sid == CHOOSE q \in batch : TRUE
         IN  DetectAll(RecordAfterStore(store_patterns(acc, sid, outcome[sid]),
                                        6, sid, digest[sid], run_id),
                       batch \ {sid}, digest, outcome, run_id)

(* _detect_changed_steps *)
StepsToDetect(trees, steps, ledger) ==
    {sid \in ApprovedSteps(trees, steps) :
        Changed(StoredHash(ledger, 6, sid), StepDigest(StepOf(steps, sid)))}

Stage5Error(status) ==
    "Stage 5 status is '" \o StatusStr(status) \o "'. Trees must be approved first."

(* stage6_detection.run *)
Stage6Run(log, tables, ledger, run_id, outcome) ==
    LET started == LogStageStart(log, run_id, 6)
        stage5_status == get_stage_status(started, run_id, 5)
        all_steps == ApprovedSteps(tables.trees, tables.steps)
        digest == [sid \in all_steps |-> StepDigest(StepOf(tables.steps, sid))]
        to_detect == StepsToDetect(tables.trees, tables.steps, ledger)
        none == Progress(ledger, tables)
        (* for step in to_detect: storage.delete_patterns_for_step(step_id) *)
        cleaned == [none EXCEPT !.out.patterns = @ \ to_detect]
        acc == DetectAll(cleaned, to_detect, digest, outcome, run_id)
        Result(l, candidates, a) ==
            [log |-> l, tables |-> a.out, ledger |-> a.ledger,
             run |-> RunRecord(6, run_id, candidates,
                               [sid \in candidates |-> digest[sid]], ledger, {}, a)]
    IN  CASE ~Satisfied(stage5_status) ->
                Result(LogStageFailed(started, run_id, 6, Stage5Error(stage5_status)),
                       {}, none)
          [] Satisfied(stage5_status)
                /\ \A p \in Policies : tables.trees[p] # "approved" ->
                Result(LogStageFailed(started, run_id, 6,
                            "No approved exploitation trees found. Run Stage 5 first."),
                       {}, none)
          [] Satisfied(stage5_status)
                /\ (\E p \in Policies : tables.trees[p] = "approved")
                /\ all_steps = {} ->
                Result(LogStageFailed(started, run_id, 6,
                            "No exploitation steps found. Run Stage 5 first."),
                       {}, none)
          [] OTHER ->
                IF to_detect = {}
                THEN Result(LogStageComplete(started, run_id, 6), all_steps, none)
                ELSE Result(LogStageComplete(started, run_id, 6), all_steps, acc)

stage6_run(run_id) ==
    /\ part = "prediction"
    /\ RunsStarted(6) < MaxStageRuns
    /\ \E outcome \in [StepsToDetect(exploitation_trees, exploitation_steps,
                                     stage_processing_log) -> EntityOutcomes] :
       LET r == Stage6Run(stage_log,
                          Tables(exploitation_trees, exploitation_steps,
                                 detection_patterns),
                          stage_processing_log, run_id, outcome)
       IN  /\ stage_log' = r.log
           /\ detection_patterns' = r.tables.patterns
           /\ stage_processing_log' = r.ledger
           /\ lastRun' = r.run
    /\ UNCHANGED <<exploitation_trees, exploitation_steps, lastCall, part, attemptVars, parallelVars, migrateVars, cases,
                   taxonomy, convergence_scores, calibration, policies,
                   quality_assessments, policy_scores>>

(* storage.insert_policy_score: INSERT .. ON CONFLICT (policy_id, quality_id) DO
   UPDATE, a policy scored again by stage 4 *)
insert_policy_score(policy_id, quality_id, present) ==
    /\ part = "prediction"
    /\ policy_scores' = [policy_scores EXCEPT ![policy_id] =
            IF present THEN @ \cup {quality_id} ELSE @ \ {quality_id}]
    /\ lastRun' = NoRun
    /\ UNCHANGED <<logVars, part, attemptVars, parallelVars, migrateVars, cases, taxonomy, convergence_scores, calibration,
                   policies, quality_assessments, exploitation_steps,
                   detection_patterns, stage_processing_log>>

(* the tables when stages 1 to 4 have run: every policy scored, the threshold
   calibrated *)
InitPrediction ==
    /\ part = "prediction"
    /\ stage_log = <<>>
    /\ exploitation_trees = [p \in Policies |-> "absent"]
    /\ lastCall = Call("init", NULL, 0, NULL, NULL, NULL, NULL, {})
    /\ cases = [c \in CaseIds |-> "a"]
    /\ taxonomy = QualityIds
    /\ convergence_scores = CaseIds
    /\ calibration = {[threshold |-> 1]}
    /\ policies = [p \in Policies |-> "x"]
    /\ quality_assessments = {}
    /\ policy_scores = [p \in Policies |-> QualityIds]
    /\ exploitation_steps = [p \in Policies |-> {}]
    /\ detection_patterns = {}
    /\ stage_processing_log = <<>>
    /\ lastRun = NoRun
    /\ StoreMigrated
    /\ DispatcherIdle
    /\ NoAttempts

(* the tables when the taxonomy of run r1 has been approved *)
InitScoring ==
    /\ part = "scoring"
    /\ stage_log = GateApproved
    /\ exploitation_trees = [p \in Policies |-> "absent"]
    /\ lastCall = Call("init", NULL, 0, NULL, NULL, NULL, NULL, {})
    /\ CorpusEmpty
    /\ stage_processing_log = <<>>
    /\ lastRun = NoRun
    /\ StoreMigrated
    /\ DispatcherIdle
    /\ NoAttempts

InitDelta == InitScoring \/ InitScanning \/ InitPrediction

NextDelta ==
    \/ \E r \in Runs, co \in {"ok", "invoke_raises"}, t \in Thresholds,
          e \in Errors :
            stage3_run(r, co, t, e)
    \/ \E c \in CaseIds, t \in CaseTexts : insert_case(c, t)
    \/ \E q \in ReviewedQualities, st \in {"approved", "rejected"} :
            update_quality_review(q, st)
    \/ \E r \in Runs, e \in Errors : stage4_run(r, e)
    \/ \E p \in Policies, t \in {NULL} : insert_policy(p, t)
    \/ \E p \in Policies : upsert_quality_assessment(p)
    \/ \E r \in Runs : stage5_run(r)
    \/ \E r \in Runs : stage6_run(r)
    \/ \E r \in Runs :
            /\ part = "prediction"
            /\ get_stage_status(stage_log, r, 5) = "pending_review"
            /\ cmd_approve(r, 5)
    \/ \E p \in RescoredPolicies, q \in ReviewedQualities, b \in BOOLEAN :
            insert_policy_score(p, q, b)

SpecDelta == InitDelta /\ [][NextDelta]_vars

----------------------------------------------------------------------------
(* The schema migrator, instance by instance.  Statements of other sessions see
   the committed tables only; the statements of a migration take effect in
   schema_version, applied and stage_processing_log when it commits. *)

(* the finally clause of _migrate and the rest of __init__: autocommit is
   restored; _schema_ready is set when _migrate returned *)
(* mutant: the except clause rolls back and does not re-raise *)
Finish_Swallows(i, c, raised_in_body, executed, wrote) ==
    LET restored == SetAutocommit(c, proc[i].old_autocommit)
        raised == restored.raised
    IN  /\ conn' = [conn EXCEPT ![i] = restored.conn]
        /\ schema_ready' = [schema_ready EXCEPT ![i] = IF raised THEN @ ELSE TRUE]
        /\ proc' = [proc EXCEPT ![i] =
                        [NewProcess(proc[i].starts) EXCEPT
                            !.pc = IF raised THEN "raised" ELSE "ready"]]
        /\ lastMigrate' = [lastMigrate EXCEPT ![i] =
                        [@ EXCEPT !.outcome = IF raised THEN "raised" ELSE "returned",
                                  !.executed = executed,
                                  !.wrote = wrote,
                                  !.failed = raised_in_body]]

Finish(i, c, raised_in_body, executed, wrote) ==
    LET restored == SetAutocommit(c, proc[i].old_autocommit)
        raised == raised_in_body \/ restored.raised
    IN  /\ conn' = [conn EXCEPT ![i] = restored.conn]
        /\ schema_ready' = [schema_ready EXCEPT ![i] = IF raised THEN @ ELSE TRUE]
        /\ proc' = [proc EXCEPT ![i] =
                        [NewProcess(proc[i].starts) EXCEPT
                            !.pc = IF raised THEN "raised" ELSE "ready"]]
        /\ lastMigrate' = [lastMigrate EXCEPT ![i] =
                        [@ EXCEPT !.outcome = IF raised THEN "raised" ELSE "returned",
                                  !.executed = executed,
                                  !.wrote = wrote,
                                  !.failed = raised_in_body]]

(* SVAPStorage.__init__ up to the lock attempt of _migrate: nothing when
   _schema_ready; else autocommit off, the two SETs (which open the
   transaction) and SELECT pg_try_advisory_xact_lock(42) *)
SVAPStorage(i) ==
    /\ part = "migration"
    /\ proc[i].pc \in {"idle", "raised", "ready"}
    /\ IF schema_ready[i]
       THEN UNCHANGED migrateVars
       ELSE IF SetAutocommit(conn[i], FALSE).raised
       THEN /\ proc' = [proc EXCEPT ![i].pc = "raised"]
            /\ lastMigrate' = [lastMigrate EXCEPT ![i] =
                    [NoMigrate EXCEPT !.outcome = "raised",
                                      !.began_at = schema_version]]
            /\ UNCHANGED <<schema_version, applied, advisory_lock, conn, schema_ready>>
       ELSE LET acquired == TryAdvisoryLock(advisory_lock)
            IN  /\ conn' = [conn EXCEPT ![i] =
                        [autocommit |-> FALSE, in_transaction |-> TRUE]]
                /\ advisory_lock' =
                        IF acquired THEN advisory_lock \cup {i} ELSE advisory_lock
                /\ proc' = [proc EXCEPT ![i] =
                        [@ EXCEPT !.pc = IF acquired THEN "acquired" ELSE "not_acquired",
                                  !.old_autocommit = conn[i].autocommit]]
                /\ lastMigrate' = [lastMigrate EXCEPT ![i] =
                        [NoMigrate EXCEPT !.outcome = "running",
                                          !.began_at = schema_version,
                                          !.attempted = TRUE,
                                          !.acquired = acquired]]
                /\ UNCHANGED <<schema_version, applied, schema_ready>>
    /\ UNCHANGED <<logVars, part, attemptVars, parallelVars, corpusVars, stage_processing_log, lastRun>>

(* _migrate when the lock was not acquired: the SELECT raises when _svap_schema
   is not there (rollback); a version at SCHEMA_VERSION is committed; a lower
   version returns with the transaction open *)
migrate_not_acquired(i) ==
    /\ part = "migration"
    /\ proc[i].pc = "not_acquired"
    /\ LET c == IF schema_version = {} THEN EndTransaction(conn[i])
                ELSE IF AtTarget(Current(schema_version)) THEN EndTransaction(conn[i])
                ELSE conn[i]
       IN  Finish(i, c, FALSE, <<>>, FALSE)
    /\ UNCHANGED <<logVars, part, attemptVars, parallelVars, corpusVars, stage_processing_log, lastRun,
                   schema_version, applied, advisory_lock>>

(* _migrate with the lock: the bootstrap statements and the read of the version;
   at SCHEMA_VERSION it commits and returns *)
migrate_bootstrap(i) ==
    /\ part = "migration"
    /\ proc[i].pc = "acquired"
    /\ LET current == Current(schema_version)
       IN  IF AtTarget(current)
           THEN /\ advisory_lock' = advisory_lock \ {i}
                /\ Finish(i, EndTransaction(conn[i]), FALSE, <<>>, FALSE)
           ELSE /\ proc' = [proc EXCEPT ![i] =
                        [@ EXCEPT !.pc = "applying", !.current = current, !.index = 1]]
                /\ UNCHANGED <<advisory_lock, conn, schema_ready, lastMigrate>>
    /\ UNCHANGED <<logVars, part, attemptVars, parallelVars, corpusVars, stage_processing_log, lastRun,
                   schema_version, applied>>

(* one iteration of the loop over MIGRATIONS: an entry that is not pending is
   skipped; the statements of a pending one are executed, or one of them raises
   and the transaction is rolled back *)
migrate_apply(i, outcome) ==
    /\ part = "migration"
    /\ proc[i].pc = "applying"
    /\ proc[i].index <= Len(MIGRATIONS)
    /\ LET version == MIGRATIONS[proc[i].index]
       IN  IF ~Pending(version, proc[i].current)
           THEN /\ outcome = "ok"
                /\ proc' = [proc EXCEPT ![i].index = @ + 1]
                /\ UNCHANGED <<advisory_lock, conn, schema_ready, lastMigrate>>
           ELSE IF outcome = "raises"
           THEN /\ advisory_lock' = advisory_lock \ {i}
                /\ Finish(i, EndTransaction(conn[i]), TRUE,
                          Append(proc[i].executed, version), FALSE)
           ELSE /\ proc' = [proc EXCEPT ![i] =
                        [@ EXCEPT !.index = @ + 1,
                                  !.executed = Append(@, version),
                                  !.deleted = IF version = 6
                                              THEN @ \cup InvalidatedRows(stage_processing_log)
                                              ELSE @]]
                /\ UNCHANGED <<advisory_lock, conn, schema_ready, lastMigrate>>
    /\ UNCHANGED <<logVars, part, attemptVars, parallelVars, corpusVars, stage_processing_log, lastRun,
                   schema_version, applied>>

(* after the loop: UPDATE _svap_schema SET version = SCHEMA_VERSION; commit *)
migrate_commit(i) ==
    /\ part = "migration"
    /\ proc[i].pc = "applying"
    /\ proc[i].index > Len(MIGRATIONS)
    /\ LET executed == proc[i].executed
           ledger == Without(stage_processing_log, proc[i].deleted)
           counts == [v \in DOMAIN applied |-> applied[v] + Executions(executed, v)]
       IN  /\ schema_version' = {SCHEMA_VERSION}
           /\ applied' = counts
           /\ stage_processing_log' = ledger
           /\ advisory_lock' = advisory_lock \ {i}
           /\ Finish(i, EndTransaction(conn[i]), FALSE, executed,
                     \/ schema_version # {SCHEMA_VERSION}
                     \/ counts # applied
                     \/ DOMAIN ledger # DOMAIN stage_processing_log)
    /\ UNCHANGED <<logVars, part, attemptVars, parallelVars, corpusVars, lastRun>>

(* the instance is replaced (Lambda timeout, cold start): its connection is gone,
   the server rolls its transaction back and releases its lock; the new process
   starts with _conn None and _schema_ready False *)
cold_start(i) ==
    /\ part = "migration"
    /\ proc[i].pc # "idle"
    /\ proc[i].starts < MaxColdStarts
    /\ advisory_lock' = advisory_lock \ {i}
    /\ conn' = [conn EXCEPT ![i] = NewConnection]
    /\ proc' = [proc EXCEPT ![i] = NewProcess(@.starts + 1)]
    /\ schema_ready' = [schema_ready EXCEPT ![i] = FALSE]
    /\ lastMigrate' = [lastMigrate EXCEPT ![i].outcome =
                            IF @ = "running" THEN "killed" ELSE @]
    /\ UNCHANGED <<logVars, part, attemptVars, parallelVars, corpusVars, stage_processing_log, lastRun,
                   schema_version, applied>>

(* storage.record_processing by an instance that proceeded to use the store (its
   statement commits itself); it waits for a migration that has deleted the row *)
record_processing(i, stage, entity_id, input_hash, run_id) ==
    /\ part = "migration"
    /\ proc[i].pc = "ready"
    /\ LedgerExists(schema_version)
    /\ \A j \in Instances : <<stage, entity_id>> \notin proc[j].deleted
    /\ stage_processing_log' =
            RecordProcessing(stage_processing_log, stage, entity_id, input_hash, run_id)
    /\ UNCHANGED <<logVars, part, attemptVars, parallelVars, corpusVars, lastRun, migrateVars>>

(* a ledger with a stage 3 and a stage 5 row *)
LedgerOfEarlierRuns ==
    RecordProcessing(RecordProcessing(<<>>, 3, "c1", "h0", "r0"), 5, "p1", "h0", "r0")

(* a new database, or one that an earlier deployment left at version v *)
InitMigrate ==
    /\ part = "migration"
    /\ stage_log = <<>>
    /\ exploitation_trees = [p \in Policies |-> "absent"]
    /\ lastCall = Call("init", NULL, 0, NULL, NULL, NULL, NULL, {})
    /\ CorpusEmpty
    /\ lastRun = NoRun
    /\ \E v \in 0..SCHEMA_VERSION :
          /\ schema_version = IF v = 0 THEN {} ELSE {v}
          /\ applied = [k \in 1..SCHEMA_VERSION |-> IF k <= v THEN 1 ELSE 0]
          /\ stage_processing_log \in
                IF LedgerExists(schema_version) THEN {<<>>, LedgerOfEarlierRuns}
                                                ELSE {<<>>}
    /\ advisory_lock = {}
    /\ conn = [i \in Instances |-> NewConnection]
    /\ proc = [i \in Instances |-> NewProcess(0)]
    /\ schema_ready = [i \in Instances |-> FALSE]
    /\ lastMigrate = [i \in Instances |-> NoMigrate]
    /\ DispatcherIdle
    /\ NoAttempts

NextMigrate ==
    \/ \E i \in Instances : SVAPStorage(i)
    \/ \E i \in Instances : migrate_not_acquired(i)
    \/ \E i \in Instances : migrate_bootstrap(i)
    \/ \E i \in Instances, o \in {"ok", "raises"} : migrate_apply(i, o)
    \/ \E i \in Instances : migrate_commit(i)
    \/ \E i \in Instances : cold_start(i)
    \/ \E i \in Instances, r \in Runs : record_processing(i, 5, "p1", "h1", r)

SpecMigrate == InitMigrate /\ [][NextMigrate]_vars

----------------------------------------------------------------------------
(* The parallel dispatcher, thread by thread.  calls is history: for each job
   the number of invoke_fn calls and of on_result calls made for it. *)

(* run_parallel_llm up to the as_completed loop: every job is submitted *)
run_parallel_llm(js, mc) ==
    /\ part = "parallel"
    /\ dispatcher = "idle"
    /\ jobs' = js
    /\ max_concurrency' = mc
    /\ futures' = [j \in DOMAIN js |-> "pending"]
    /\ total' = 0
    /\ failed' = <<>>
    /\ dispatcher' = "waiting"
    /\ calls' = [j \in DOMAIN js |-> [invoke |-> 0, on_result |-> 0]]
    /\ UNCHANGED <<logVars, part, attemptVars, corpusVars, stage_processing_log, lastRun, migrateVars>>

(* a free worker thread takes the oldest queued job and calls invoke_fn(prompt) *)
worker_start(j) ==
    /\ part = "parallel"
    /\ dispatcher = "waiting"
    /\ FuturesIn(futures, "pending") # {}
    /\ j = NextQueued(futures)
    /\ WorkerFree(futures, max_concurrency)
    /\ futures' = [futures EXCEPT ![j] = "running"]
    /\ calls' = [calls EXCEPT ![j].invoke = @ + 1]
    /\ UNCHANGED <<logVars, part, attemptVars, corpusVars, stage_processing_log, lastRun, migrateVars,
                   jobs, max_concurrency, total, failed, dispatcher>>

(* invoke_fn returns or raises: the future is done *)
worker_finish(j) ==
    /\ part = "parallel"
    /\ j \in FuturesIn(futures, "running")
    /\ futures' = [futures EXCEPT ![j] = "finished"]
    /\ UNCHANGED <<logVars, part, attemptVars, corpusVars, stage_processing_log, lastRun, migrateVars,
                   jobs, max_concurrency, total, failed, dispatcher, calls>>

(* as_completed yields a finished future to the for loop of the calling thread,
   which enters the loop body: future.result(), then on_result(result, ctx) *)
as_completed_yield(j) ==
    /\ part = "parallel"
    /\ dispatcher = "waiting"
    /\ CallerFree(futures)
    /\ j \in FuturesIn(futures, "finished")
    /\ futures' = [futures EXCEPT ![j] = "handling"]
    /\ UNCHANGED <<logVars, part, attemptVars, corpusVars, stage_processing_log, lastRun, migrateVars,
                   jobs, max_concurrency, total, failed, dispatcher, calls>>

(* the loop body ends for the future: on_result has returned and total is
   updated, or the except clause has appended the label to failed *)
handle_future(j) ==
    /\ part = "parallel"
    /\ dispatcher = "waiting"
    /\ ~AllYielded(futures)
    /\ j \in FuturesIn(futures, "handling")
    /\ LET after == Handle(jobs[j], total, failed)
       IN  /\ total' = after.total
           /\ failed' = after.failed
           /\ dispatcher' = IF after.raised THEN "raised" ELSE "waiting"
    /\ futures' = [futures EXCEPT ![j] = "yielded"]
    /\ calls' = [calls EXCEPT ![j].on_result =
                    IF jobs[j].behaviour = "invoke_raises" THEN @ ELSE @ + 1]
    /\ UNCHANGED <<logVars, part, attemptVars, corpusVars, stage_processing_log, lastRun, migrateVars,
                   jobs, max_concurrency>>

(* the loop is over: the executor is shut down and (total, failed) returned *)
return_total_failed ==
    /\ part = "parallel"
    /\ dispatcher = "waiting"
    /\ AllYielded(futures)
    /\ dispatcher' = "returned"
    /\ UNCHANGED <<logVars, part, attemptVars, corpusVars, stage_processing_log, lastRun, migrateVars,
                   jobs, max_concurrency, futures, total, failed, calls>>

InitParallel ==
    /\ part = "parallel"
    /\ stage_log = <<>>
    /\ exploitation_trees = [p \in Policies |-> "absent"]
    /\ lastCall = Call("init", NULL, 0, NULL, NULL, NULL, NULL, {})
    /\ CorpusEmpty
    /\ stage_processing_log = <<>>
    /\ lastRun = NoRun
    /\ StoreMigrated
    /\ DispatcherIdle
    /\ NoAttempts

NextParallel ==
    \/ \E n \in 0..MaxJobs, mc \in 1..MaxWorkers : \E js \in Batches(n) :
            run_parallel_llm(js, mc)
    \/ \E j \in DOMAIN futures : worker_start(j)
    \/ \E j \in DOMAIN futures : worker_finish(j)
    \/ \E j \in DOMAIN futures : as_completed_yield(j)
    \/ \E j \in DOMAIN futures : handle_future(j)
    \/ return_total_failed

SpecParallel == InitParallel /\ [][NextParallel]_vars

(* the threads of the batch are scheduled, and every invoke_fn and on_result
   call terminates *)
FairParallel ==
    /\ \A j \in 1..MaxJobs : WF_vars(worker_start(j))
    /\ \A j \in 1..MaxJobs : WF_vars(worker_finish(j))
    /\ \A j \in 1..MaxJobs : WF_vars(as_completed_yield(j))
    /\ \A j \in 1..MaxJobs : WF_vars(handle_future(j))
    /\ WF_vars(return_total_failed)

SpecParallelFair == SpecParallel /\ FairParallel

----------------------------------------------------------------------------
(* Stage attempts, one store statement per step: STAGES[n].run calls
   log_stage_start, runs its body inside try, and ends with
   log_stage_complete / log_stage_pending_review, or in its except branch with
   log_stage_failed(run_id, n, str(e)) and raise; stage_runner.handler wraps
   _run_stage in a second try / except of the same shape. *)

attemptFrame == <<lastCall, part, cli, lastRecord, approvals, parallelVars, corpusVars, stage_processing_log, lastRun, migrateVars>>

Attempt(via, run_id, stage, row) ==
    [pc |-> "running", via |-> via, run_id |-> run_id, stage |-> stage, row |-> row,
     error |-> NULL]

(* _run_stage passes its prerequisite check and STAGES[stage].run calls
   log_stage_start *)
attempt_start(w, via, run_id, stage) ==
    /\ part = "attempts"
    /\ Outside(attempts[w])
    /\ ~PrerequisiteBlocks(stage_log, run_id, stage)
    /\ Len(stage_log) < MaxRows
    /\ stage_log' = LogStageStart(stage_log, run_id, stage)
    /\ attempts' = [attempts EXCEPT ![w] = Attempt(via, run_id, stage, {Len(stage_log) + 1})]
    /\ UNCHANGED <<exploitation_trees, attemptFrame>>

(* _run_stage raises RuntimeError before any stage logic runs; the handler's
   except branch calls log_stage_failed all the same *)
attempt_blocked(w, via, run_id, stage) ==
    /\ part = "attempts"
    /\ Outside(attempts[w])
    /\ PrerequisiteBlocks(stage_log, run_id, stage)
    /\ LET exc == PrerequisiteError(stage, get_stage_status(stage_log, run_id, stage - 1))
       IN  /\ stage_log' = IF via = "handler"
                           THEN LogStageFailed(stage_log, run_id, stage, exc)
                           ELSE stage_log
           /\ attempts' = [attempts EXCEPT ![w] =
                              [Attempt(via, run_id, stage, {}) EXCEPT !.pc = "raised",
                                                                      !.error = exc]]
    /\ UNCHANGED <<exploitation_trees, attemptFrame>>

(* the body ends: storage.log_stage_complete(run_id, n, ..), return *)
attempt_complete(w) ==
    /\ part = "attempts"
    /\ attempts[w].pc = "running"
    /\ stage_log' = LogStageComplete(stage_log, attempts[w].run_id, attempts[w].stage)
    /\ attempts' = [attempts EXCEPT ![w].pc = "returned"]
    /\ UNCHANGED <<exploitation_trees, attemptFrame>>

(* stages 2 and 5 end with storage.log_stage_pending_review(run_id, n); stage 5
   has stored its trees as drafts before *)
attempt_pending_review(w, policy_id) ==
    /\ part = "attempts"
    /\ attempts[w].pc = "running"
    /\ attempts[w].stage \in human_gates
    /\ stage_log' = LogStagePendingReview(stage_log, attempts[w].run_id, attempts[w].stage)
    /\ exploitation_trees' = StageRunTrees(exploitation_trees, attempts[w].stage,
                                           "pending_review", policy_id)
    /\ attempts' = [attempts EXCEPT ![w].pc = "returned"]
    /\ UNCHANGED attemptFrame

(* the body raises: except Exception as e: storage.log_stage_failed(run_id, n,
   str(e)); raise *)
attempt_raise(w, error) ==
    /\ part = "attempts"
    /\ attempts[w].pc = "running"
    /\ stage_log' = LogStageFailed(stage_log, attempts[w].run_id, attempts[w].stage, error)
    /\ attempts' = [attempts EXCEPT ![w].error = error,
                                    ![w].pc = IF attempts[w].via = "handler"
                                              THEN "handling" ELSE "raised"]
    /\ UNCHANGED <<exploitation_trees, attemptFrame>>

(* stage_runner.handler: except Exception as e: storage.log_stage_failed(run_id,
   stage, str(e)); raise *)
handler_except(w) ==
    /\ part = "attempts"
    /\ attempts[w].pc = "handling"
    /\ stage_log' = LogStageFailed(stage_log, attempts[w].run_id, attempts[w].stage,
                                   attempts[w].error)
    /\ attempts' = [attempts EXCEPT ![w].pc = "raised"]
    /\ UNCHANGED <<exploitation_trees, attemptFrame>>

(* the process is killed while inside the call (a Lambda timeout) *)
attempt_kill(w) ==
    /\ part = "attempts"
    /\ attempts[w].pc \in {"running", "handling"}
    /\ attempts' = [attempts EXCEPT ![w].pc = "killed"]
    /\ UNCHANGED <<logVars, attemptFrame>>

InitAttempts ==
    /\ stage_log \in {<<>>, <<EarlierRow("r1", 4, "completed")>>}
    /\ exploitation_trees = [p \in Policies |-> "absent"]
    /\ lastCall = Call("init", NULL, 0, NULL, NULL, NULL, NULL, {})
    /\ part = "attempts"
    /\ CorpusEmpty
    /\ stage_processing_log = <<>>
    /\ lastRun = NoRun
    /\ StoreMigrated
    /\ DispatcherIdle
    /\ NoAttempts

NextAttempts ==
    \/ \E w \in Processes, v \in Entries, r \in Runs, s \in AttemptStages :
            attempt_start(w, v, r, s)
    \/ \E w \in Processes, v \in Entries, r \in Runs, s \in AttemptStages :
            attempt_blocked(w, v, r, s)
    \/ \E w \in Processes : attempt_complete(w)
    \/ \E w \in Processes, p \in Policies : attempt_pending_review(w, p)
    \/ \E w \in Processes, e \in Errors : attempt_raise(w, e)
    \/ \E w \in Processes : handler_except(w)
    \/ \E w \in Processes : attempt_kill(w)

SpecAttempts == InitAttempts /\ [][NextAttempts]_vars

----------------------------------------------------------------------------
(* orchestrator.cmd_run with --stage all, one store statement or stage call per
   step, next to approvals made by another process (cmd_approve) *)

cliFrame == <<part, attempts, lastRecord, approvals, parallelVars, corpusVars, stage_processing_log, lastRun, migrateVars>>

(* the values of config["pipeline"]["human_gates"]: the default, or none *)
GateConfigs == {human_gates, {}}

(* mutant: a stage pending review lets the next stage start *)
PrerequisiteMet_Pending(status) == status \in {"completed", "approved", "pending_review"}

(* cmd_run: if prev_status not in ("completed", "approved"): ... break *)
PrerequisiteMet(status) == status \in {"completed", "approved"}

(* cmd_run: stage_status == "pending_review" and stage_num in human_gates and
   args.stage == "all" *)
PausesAt(status, stage, gates) == status = "pending_review" /\ stage \in gates

(* python -m svap.orchestrator run --stage all: stages_to_run = [1, .., 6] *)
cmd_run_all(run_id, gates) ==
    /\ part = "cmd_run"
    /\ cli.pc \in {"idle", "done", "raised", "killed"}
    /\ cli.runs < MaxCmdRuns
    /\ cli' = [NoCmdRun EXCEPT !.pc = "loop", !.run_id = run_id, !.gates = gates,
                               !.stage_num = 1, !.runs = cli.runs + 1]
    /\ UNCHANGED <<logVars, cliFrame>>

(* one iteration of the loop up to the return of STAGES[stage_num].run: the
   prerequisite check, then the stage's logic, whose exception leaves cmd_run *)
cmd_run_stage(outcome, error, policy_id) ==
    /\ part = "cmd_run"
    /\ cli.pc = "loop"
    /\ LET n == cli.stage_num
           prev_status == IF n > 1 THEN get_stage_status(stage_log, cli.run_id, n - 1)
                          ELSE NULL
           after == StageRunLog(stage_log, exploitation_trees, cli.run_id, n, outcome,
                                error)
           exc == StageError(LogStageStart(stage_log, cli.run_id, n), exploitation_trees,
                             cli.run_id, n, outcome, error)
       IN  IF n > 1 /\ ~PrerequisiteMet(prev_status)
           THEN /\ cli' = [cli EXCEPT !.pc = "done"]
                /\ UNCHANGED <<stage_log, exploitation_trees>>
           ELSE /\ stage_log' = after
                /\ exploitation_trees' = StageRunTrees(exploitation_trees, n, outcome,
                                                       policy_id)
                /\ cli' = [cli EXCEPT
                            !.invoked = Append(@, n),
                            !.seen = Append(@, prev_status),
                            !.ended = Append(@, get_stage_status(after, cli.run_id, n)),
                            !.pc = CASE outcome = "killed" -> "killed"
                                     [] outcome # "killed" /\ exc # NULL -> "raised"
                                     [] OTHER -> "after_stage"]
    /\ UNCHANGED <<lastCall, cliFrame>>

(* the rest of the iteration: stage_status = storage.get_stage_status(run_id,
   stage_num); break at a human gate, else the next stage_num *)
cmd_run_gate_check ==
    /\ part = "cmd_run"
    /\ cli.pc = "after_stage"
    /\ LET stage_status == get_stage_status(stage_log, cli.run_id, cli.stage_num)
       IN  cli' = IF PausesAt(stage_status, cli.stage_num, cli.gates)
                     \/ cli.stage_num = 6
                  THEN [cli EXCEPT !.pc = "done"]
                  ELSE [cli EXCEPT !.pc = "loop", !.stage_num = @ + 1]
    /\ UNCHANGED <<logVars, cliFrame>>

InitCmdRun ==
    /\ stage_log = <<>>
    /\ exploitation_trees = [p \in Policies |-> "absent"]
    /\ lastCall = Call("init", NULL, 0, NULL, NULL, NULL, NULL, {})
    /\ part = "cmd_run"
    /\ CorpusEmpty
    /\ stage_processing_log = <<>>
    /\ lastRun = NoRun
    /\ StoreMigrated
    /\ DispatcherIdle
    /\ NoAttempts

NextCmdRun ==
    \/ \E r \in Runs, g \in GateConfigs : cmd_run_all(r, g)
    \/ \E e \in Errors, p \in Policies, o \in Outcomes :
            o \in OutcomesOf(cli.stage_num) /\ cmd_run_stage(o, e, p)
    \/ cmd_run_gate_check
    \/ \E r \in Runs, s \in human_gates : part = "cmd_run" /\ cmd_approve(r, s)

SpecCmdRun == InitCmdRun /\ [][NextCmdRun]_vars

----------------------------------------------------------------------------
(* Concurrent writers of the processing ledger: processes that call
   storage.record_processing on one store.  The connection is in autocommit mode,
   so the single INSERT .. ON CONFLICT statement is the whole transaction. *)

LedgerStages == {5, 6}

LedgerEntities == {"e1", "e2"}

LedgerHashes == {"h1", "h2"}

LedgerRuns == {"r1", "r2"}

writer_record_processing(w, stage, entity_id, input_hash, run_id) ==
    /\ part = "ledger"
    /\ stage_processing_log' =
            RecordProcessing(stage_processing_log, stage, entity_id, input_hash, run_id)
    /\ lastRecord' =
            [writer |-> w, stage |-> stage, entity_id |-> entity_id,
             input_hash |-> input_hash, run_id |-> run_id,
             replaced |-> {stage_processing_log[k] :
                            k \in DOMAIN stage_processing_log \cap {<<stage, entity_id>>}}]
    /\ UNCHANGED <<logVars, part, attempts, cli, approvals, parallelVars, corpusVars, lastRun, migrateVars>>

InitLedger ==
    /\ stage_log = <<>>
    /\ exploitation_trees = [p \in Policies |-> "absent"]
    /\ lastCall = Call("init", NULL, 0, NULL, NULL, NULL, NULL, {})
    /\ part = "ledger"
    /\ CorpusEmpty
    /\ stage_processing_log \in {<<>>, LedgerOfEarlierRuns}
    /\ lastRun = NoRun
    /\ StoreMigrated
    /\ DispatcherIdle
    /\ NoAttempts

NextLedger ==
    \E w \in Processes, st \in LedgerStages, e \in LedgerEntities, h \in LedgerHashes,
       r \in LedgerRuns :
            writer_record_processing(w, st, e, h, r)

SpecLedger == InitLedger /\ [][NextLedger]_vars

----------------------------------------------------------------------------
(* The gate registration of stage_runner.handler (gate mode) and the approval
   requests of api._approve_stage, one store statement or external call per
   step.  The requests run where the state machine is configured (IS_LAMBDA and
   PIPELINE_STATE_MACHINE_ARN). *)

gateFrame == <<lastCall, part, attempts, cli, lastRecord, parallelVars, corpusVars, stage_processing_log, lastRun, migrateVars>>

GateRun == "r1"

(* the number of send_task_success calls made with token t *)
Signals(t) == Cardinality({n \in DOMAIN approvals.sent : approvals.sent[n] = t})

(* handler: storage.log_stage_start(run_id, stage) *)
gate_log_stage_start(task_token) ==
    /\ part = "gate"
    /\ approvals.gate = "idle"
    /\ stage_log' = LogStageStart(stage_log, GateRun, approvals.stage)
    /\ approvals' = [approvals EXCEPT !.gate = "started", !.token = task_token,
                                      !.row = {Len(stage_log) + 1}]
    /\ UNCHANGED <<exploitation_trees, gateFrame>>

(* handler: storage.log_stage_pending_review(run_id, stage) *)
gate_log_stage_pending_review ==
    /\ part = "gate"
    /\ approvals.gate = "started"
    /\ stage_log' = LogStagePendingReview(stage_log, GateRun, approvals.stage)
    /\ approvals' = [approvals EXCEPT !.gate = "pending"]
    /\ UNCHANGED <<exploitation_trees, gateFrame>>

(* handler: storage.store_task_token(run_id, stage, task_token); return *)
gate_store_task_token ==
    /\ part = "gate"
    /\ approvals.gate = "pending"
    /\ stage_log' = StoreTaskToken(stage_log, GateRun, approvals.stage, approvals.token)
    /\ approvals' = [approvals EXCEPT !.gate = "registered"]
    /\ UNCHANGED <<exploitation_trees, gateFrame>>

(* _approve_stage: status = storage.get_stage_status(run_id, stage); ApiError 400
   unless it is pending_review *)
approve_check(a) ==
    /\ part = "gate"
    /\ approvals.requests[a].pc = "idle"
    /\ approvals' = [approvals EXCEPT
                        !.requests[a].gate = approvals.gate,
                        !.requests[a].pc =
                            IF get_stage_status(stage_log, GateRun, approvals.stage) = "pending_review"
                            THEN "checked" ELSE "rejected"]
    /\ UNCHANGED <<logVars, gateFrame>>

(* _approve_stage: storage.approve_stage(run_id, stage) *)
approve_update(a) ==
    /\ part = "gate"
    /\ approvals.requests[a].pc = "checked"
    /\ stage_log' = ApproveStageLog(stage_log, GateRun, approvals.stage)
    /\ exploitation_trees' = ApproveStageTrees(exploitation_trees, approvals.stage)
    /\ approvals' = [approvals EXCEPT !.requests[a].pc = "updated"]
    /\ UNCHANGED gateFrame

(* _approve_stage: task_token = storage.get_task_token(run_id, stage); without
   a token the request returns approved *)
approve_get_task_token(a) ==
    /\ part = "gate"
    /\ approvals.requests[a].pc = "updated"
    /\ LET task_token == get_task_token(stage_log, GateRun, approvals.stage)
       IN  approvals' = [approvals EXCEPT
                            !.requests[a].task_token = task_token,
                            !.requests[a].pc = IF task_token = NULL THEN "approved"
                                               ELSE "signalling"]
    /\ UNCHANGED <<logVars, gateFrame>>

(* _approve_stage: sfn.send_task_success(taskToken=task_token, ..); return
   {"status": "approved"}.  The coordinator accepts the first signal for a token;
   what it does with a repeated one is its own business: the call returns or
   raises, and a raise leaves the request without a response body. *)
approve_send_task_success(a) ==
    /\ part = "gate"
    /\ approvals.requests[a].pc = "signalling"
    /\ \E outcome \in {"approved", "raised"} :
        /\ outcome = "raised" => Signals(approvals.requests[a].task_token) >= 1
        /\ approvals' = [approvals EXCEPT
                            !.sent = Append(@, approvals.requests[a].task_token),
                            !.requests[a].pc = outcome]
    /\ UNCHANGED <<logVars, gateFrame>>

(* the stage's own run, which precedes the gate in the state machine, has ended
   pending_review (stages 2 and 5) or completed (stage 5 without new steps) *)
InitGate ==
    /\ \E s \in human_gates, st \in {"pending_review", "completed"} :
            /\ stage_log = <<EarlierRow(GateRun, s, st)>>
            /\ approvals = NoApprovals(s)
    /\ exploitation_trees = [p \in Policies |-> "absent"]
    /\ lastCall = Call("init", NULL, 0, NULL, NULL, NULL, NULL, {})
    /\ part = "gate"
    /\ CorpusEmpty
    /\ stage_processing_log = <<>>
    /\ lastRun = NoRun
    /\ StoreMigrated
    /\ DispatcherIdle
    /\ attempts = [w \in Processes |-> NoAttempt]
    /\ cli = NoCmdRun
    /\ lastRecord = NoRecord

NextGate ==
    \/ \E t \in Tokens : gate_log_stage_start(t)
    \/ gate_log_stage_pending_review
    \/ gate_store_task_token
    \/ \E a \in Requests : approve_check(a)
    \/ \E a \in Requests : approve_update(a)
    \/ \E a \in Requests : approve_get_task_token(a)
    \/ \E a \in Requests : approve_send_task_success(a)

SpecGate == InitGate /\ [][NextGate]_vars

----------------------------------------------------------------------------
(* Claims about the stage log and the gate, checked under Spec *)

LogCalls == {"log_stage_start", "log_stage_complete", "log_stage_failed",
             "log_stage_pending_review"}

WrittenStatus(op) ==
    CASE op = "log_stage_start" -> "running"
      [] op = "log_stage_complete" -> "completed"
      [] op = "log_stage_failed" -> "failed"
      [] op = "log_stage_pending_review" -> "pending_review"

StatusNow == get_stage_status(stage_log, lastCall.run_id, lastCall.stage)

(* C1, as stated: after any sequence of log_stage_start / log_stage_complete /
   log_stage_failed / log_stage_pending_review calls on (run, stage),
   get_stage_status(run, stage) is the status written by the last call. *)
C1_StatusIsThatOfLastCall ==
    lastCall.op \in LogCalls => StatusNow = WrittenStatus(lastCall.op)

(* C1, amended: get_stage_status is the status written by the last call when
   that call is log_stage_start, or when the current status was running when
   the call was made; a complete / failed / pending_review call made while the
   current status is not running (None included) leaves it as it was. *)
C1_StatusAfterLogCall ==
    lastCall.op \in LogCalls =>
        StatusNow = IF lastCall.op = "log_stage_start" \/ lastCall.prev = "running"
                    THEN WrittenStatus(lastCall.op)
                    ELSE lastCall.prev

C1_Witness ==
    /\ lastCall.op = "log_stage_failed"
    /\ lastCall.prev = "running"
    /\ StatusNow = "failed"
    /\ Len(stage_log) = MaxLog

(* C3, as stated: approve_stage(run, stage) changes no persistent state unless
   the current status of (run, stage) is exactly pending_review; a second
   consecutive call changes nothing. *)
C3_ApproveIsNoOpUnlessPending ==
    [][ /\ (lastCall'.op = "approve_stage" /\ lastCall'.prev # "pending_review")
            => (stage_log' = stage_log /\ exploitation_trees' = exploitation_trees)
        /\ (/\ lastCall.op = "approve_stage" /\ lastCall'.op = "approve_stage"
            /\ lastCall'.run_id = lastCall.run_id /\ lastCall'.stage = lastCall.stage)
            => (stage_log' = stage_log /\ exploitation_trees' = exploitation_trees)
      ]_vars

(* C4: after the gate registration (log_stage_start, log_stage_pending_review,
   store_task_token(t)) the current status is pending_review, and after an
   approve_stage that follows it get_task_token returns exactly t, whatever
   the prior history of (run, stage). *)
C4_GateThenApproveReturnsToken ==
    /\ lastCall.op = "handler_gate" =>
            /\ StatusNow = "pending_review"
            /\ get_task_token(stage_log, lastCall.run_id, lastCall.stage) = lastCall.token
    /\ (lastCall.op = "approve_stage" /\ lastCall.token # NULL) =>
            /\ StatusNow = "approved"
            /\ get_task_token(stage_log, lastCall.run_id, lastCall.stage) = lastCall.token

(* an approval right after a gate registration whose (run, stage) already
   carried another token on an older row *)
C4_Witness ==
    /\ lastCall.op = "approve_stage"
    /\ lastCall.token = "tok-abc"
    /\ \E i \in RowsOf(stage_log, lastCall.run_id, lastCall.stage) :
            stage_log[i].task_token = "tok-xyz"

----------------------------------------------------------------------------
(* Claims about the orchestrator, checked under SpecOrch *)

BlockedRun(c) ==
    /\ c.op \in {"_run_stage", "handler_stage"}
    /\ c.stage > 1
    /\ ~Satisfied(c.prereq)

(* C2: running stage N > 1 through _run_stage, directly or via the
   stage_runner handler, while the status of stage N-1 is neither completed
   nor approved raises an error naming stage N-1 and its status, enters the
   logic of no stage, and leaves every stage_log row unchanged. *)
C2_BlockedRunChangesNothing ==
    /\ [](BlockedRun(lastCall) =>
            /\ lastCall.error = PrerequisiteError(lastCall.stage, lastCall.prereq)
            /\ lastCall.invoked = {})
    /\ [][BlockedRun(lastCall') => stage_log' = stage_log]_vars

----------------------------------------------------------------------------
(* Claims about delta processing, checked under SpecDelta *)

StatusOfLastRun == get_stage_status(stage_log, lastRun.run_id, lastRun.stage)

(* the ledger's digest for the entity when the run loaded the ledger *)
StoredAtLoad(entity_id) == StoredHash(lastRun.before, lastRun.stage, entity_id)

(* the ledger rows of (stage, entity): none or one *)
LedgerRows(ledger, stage, entity_id) ==
    {ledger[k] : k \in DOMAIN ledger \cap {<<stage, entity_id>>}}

Unchanged(entity_id) == lastRun.digest[entity_id] = StoredAtLoad(entity_id)

(* C5, as stated: in a run of a delta stage (3, 4, 5 or 6), no external call is
   made for a candidate entity whose computed digest equals the digest the
   ledger held for (stage, entity) when the run loaded it. *)
C5_NoExternalCallForUnchanged ==
    \A e \in lastRun.candidates :
        Unchanged(e) => e \notin lastRun.invoked \cup lastRun.prepared

(* C5, amended: for such an entity the call the delta check guards (scoring in
   stages 3 and 4, tree generation in stage 5, pattern generation in stage 6)
   is not made in that run; the only other per-entity external call is stage
   4's characterization call, which precedes the digest. *)
C5_GuardedCallSkippedForUnchanged ==
    /\ \A e \in lastRun.candidates : Unchanged(e) => e \notin lastRun.invoked
    /\ lastRun.prepared # {} => lastRun.stage = 4

(* a stage 4 run that skipped the scoring of a policy it had just characterized
   again and scored another policy *)
C5_Witness ==
    /\ lastRun.stage = 4
    /\ \E e \in lastRun.candidates, f \in lastRun.candidates :
            /\ Unchanged(e) /\ e \in lastRun.prepared /\ e \notin lastRun.invoked
            /\ f \in lastRun.invoked

(* C6, as stated: in a run of a delta stage the external call is made for every
   candidate entity whose computed digest differs from the stored one or that
   has no ledger record. *)
C6_ChangedEntityIsInvoked ==
    \A e \in lastRun.candidates : ~Unchanged(e) => e \in lastRun.invoked

(* C6, amended: every such entity is selected; stages 5 and 6 make the call for
   each selected entity; stages 3 and 4 make it for each selected entity until
   the call or the storing of one of them raises, which ends the run as failed
   and leaves the ledger rows of the entities not reached as they were. *)
C6_ChangedEntityIsInvokedUnlessAborted ==
    \A e \in lastRun.candidates :
        ~Unchanged(e) =>
            \/ e \in lastRun.invoked
            \/ /\ lastRun.stage \in {3, 4}
               /\ lastRun.raised \ {e} # {}
               /\ StatusOfLastRun = "failed"
               /\ LedgerRows(stage_processing_log, lastRun.stage, e)
                    = LedgerRows(lastRun.before, lastRun.stage, e)

(* a case scored again although its enabling_condition is the one its ledger
   row was recorded for: only the approved taxonomy changed *)
C6_Witness ==
    /\ lastRun.stage = 3
    /\ \E c \in lastRun.invoked :
            \E approved \in SUBSET QualityIds :
                /\ approved # taxonomy
                /\ StoredAtLoad(c) = CaseDigest(cases, approved, c)

(* C7: within a stage run record_processing is executed for an entity only
   after its new output has been stored in that run, with the digest computed
   in that run; when the external call or the storing of an entity raises, the
   ledger row of that entity is as it was when the run loaded the ledger. *)
C7_RecordOnlyAfterStore ==
    /\ lastRun.recorded \subseteq lastRun.stored
    /\ \A e \in lastRun.recorded :
            LedgerRows(stage_processing_log, lastRun.stage, e)
                = {[input_hash |-> lastRun.digest[e], run_id |-> lastRun.run_id]}
    /\ \A e \in lastRun.raised :
            /\ e \notin lastRun.recorded
            /\ LedgerRows(stage_processing_log, lastRun.stage, e)
                = LedgerRows(lastRun.before, lastRun.stage, e)

(* a run that recorded one entity and in which another entity, which had a
   ledger row, raised *)
C7_Witness ==
    /\ lastRun.recorded # {}
    /\ \E e \in lastRun.raised : LedgerRows(lastRun.before, lastRun.stage, e) # {}

----------------------------------------------------------------------------
(* Claims about the schema migrator, checked under SpecMigrate *)

(* C8: every MIGRATIONS entry is applied to the store at most once, and exactly
   once when the store is at SCHEMA_VERSION; a _migrate call that begins when an
   earlier call has brought the store to SCHEMA_VERSION executes no statement of
   MIGRATIONS, and its commit changes neither the version nor the ledger nor
   any other migrated data *)
C8_SecondMigrateAppliesNothing ==
    /\ \A v \in DOMAIN applied : applied[v] <= 1
    /\ schema_version = {SCHEMA_VERSION} => \A v \in DOMAIN applied : applied[v] = 1
    /\ \A i \in Instances :
          lastMigrate[i].began_at = {SCHEMA_VERSION}
              => /\ lastMigrate[i].executed = <<>>
                 /\ proc[i].executed = <<>>
                 /\ proc[i].deleted = {}
                 /\ ~lastMigrate[i].wrote
                 /\ schema_version = {SCHEMA_VERSION}

(* a call has migrated the store, a stage 5 row has been recorded since, and a
   call of another instance that began afterwards got the lock and returned *)
C8_Witness ==
    \E i, j \in Instances :
        /\ i # j
        /\ lastMigrate[j].outcome = "returned"
        /\ lastMigrate[j].executed # <<>>
        /\ lastMigrate[j].wrote
        /\ lastMigrate[i].outcome = "returned"
        /\ lastMigrate[i].began_at = {SCHEMA_VERSION}
        /\ lastMigrate[i].acquired
        /\ <<5, "p1">> \in DOMAIN stage_processing_log

(* C9: at most one instance holds the lock and executes migration statements,
   and an instance whose lock attempt failed executes none and returns *)
C9_OneMigratorOthersReturn ==
    /\ Cardinality({i \in Instances : proc[i].pc \in {"acquired", "applying"}}) <= 1
    /\ \A i \in Instances :
          lastMigrate[i].attempted /\ ~lastMigrate[i].acquired
              => /\ lastMigrate[i].executed = <<>>
                 /\ proc[i].executed = <<>>
                 /\ lastMigrate[i].outcome \in {"running", "killed", "returned"}

(* C10: an instance whose __init__ has returned, _schema_ready set, finds the
   committed schema version at SCHEMA_VERSION *)
C10_ReadyOnlyAtSchemaVersion ==
    \A i \in Instances : schema_ready[i] => schema_version = {SCHEMA_VERSION}

(* C11: when a statement of a migration raises, the step that ends the attempt
   leaves the committed version, the committed executions of every entry and
   the ledger as they were, ends the transaction and releases the lock, and the
   exception reaches the caller of SVAPStorage(): _schema_ready is not set;
   the committed version never claims an entry that is not committed *)
C11_FailedMigrationRollsBack ==
    [][\A i \in Instances :
          proc[i].pc = "applying" /\ lastMigrate'[i].failed
              => /\ schema_version' = schema_version
                 /\ applied' = applied
                 /\ stage_processing_log' = stage_processing_log
                 /\ \A v \in DOMAIN applied :
                        applied'[v] >= 1 <=> v <= Current(schema_version')
                 /\ i \notin advisory_lock'
                 /\ ~conn'[i].in_transaction
                 /\ lastMigrate'[i].outcome = "raised"
                 /\ ~lastMigrate'[i].wrote
                 /\ proc'[i].pc = "raised"
                 /\ ~schema_ready'[i]]_vars

(* a migration of a store below SCHEMA_VERSION has failed after it had executed
   an earlier entry, and the ledger still holds its stage 5 row *)
C11_Witness ==
    \E i \in Instances :
        /\ lastMigrate[i].failed
        /\ Len(lastMigrate[i].executed) >= 2
        /\ schema_version = lastMigrate[i].began_at
        /\ schema_version # {}
        /\ <<5, "p1">> \in DOMAIN stage_processing_log

----------------------------------------------------------------------------
(* Claims about the parallel dispatcher, checked under SpecParallel *)

(* the jobs whose invoke_fn call and on_result call both return *)
Successful == {j \in DOMAIN jobs : jobs[j].behaviour = "ok"}

RECURSIVE SumOfCounts(_)
SumOfCounts(S) ==
    IF S = {} THEN 0
    ELSE LET j == CHOOSE k \in S : TRUE
         IN  jobs[j].count + SumOfCounts(S \ {j})

(* the entries of failed that are label l *)
FailedEntries(l) == Cardinality({n \in DOMAIN failed : failed[n] = l})

(* C12: what run_parallel_llm returns: total is the sum of the counts on_result
   returned for the successful jobs, and failed holds one entry per failed job,
   its label, whatever the order of submission and of completion *)
C12_TotalAndFailedLabels ==
    dispatcher = "returned"
        => /\ total = SumOfCounts(Successful)
           /\ Len(failed) = Len(jobs) - Cardinality(Successful)
           /\ \A n \in DOMAIN JobLabels :
                FailedEntries(JobLabels[n]) =
                    Cardinality({j \in DOMAIN jobs \ Successful :
                                    jobs[j].label = JobLabels[n]})

(* the batch a ok, b raises, c ok with max_concurrency 2 has returned 2 and [b] *)
C12_Witness ==
    /\ dispatcher = "returned"
    /\ max_concurrency = 2
    /\ jobs = <<[label |-> "a", behaviour |-> "ok", count |-> 1],
                [label |-> "b", behaviour |-> "invoke_raises", count |-> 1],
                [label |-> "c", behaviour |-> "ok", count |-> 1]>>
    /\ total = 2
    /\ failed = <<"b">>

(* C13: no exception of a job leaves run_parallel_llm; invoke_fn is called at
   most once for a job and on_result at most once, and when the batch has
   returned invoke_fn has been called for every job and on_result exactly once
   for every job whose invoke_fn returned *)
C13_FailedJobDoesNotStopBatch ==
    /\ dispatcher # "raised"
    /\ \A j \in DOMAIN calls : calls[j].invoke <= 1 /\ calls[j].on_result <= 1
    /\ dispatcher = "returned"
          => \A j \in DOMAIN jobs :
                /\ calls[j].invoke = 1
                /\ calls[j].on_result =
                        IF jobs[j].behaviour = "invoke_raises" THEN 0 ELSE 1

(* with one worker, the first job's invoke raised and the second job, called
   after it, was handed to on_result *)
C13_Witness ==
    /\ dispatcher = "returned"
    /\ max_concurrency = 1
    /\ Len(jobs) >= 2
    /\ jobs[1].behaviour = "invoke_raises"
    /\ jobs[2].behaviour = "ok"
    /\ calls[2].on_result = 1
    /\ failed = <<jobs[1].label>>

(* C14: a dispatched batch returns, and it has not returned while a future is
   pending, running or finished but not handled: at return every job has been
   handed to on_result or recorded in failed *)
C14_ReturnsWhenAllJobsDone ==
    /\ (dispatcher = "waiting") ~> (dispatcher = "returned")
    /\ [](dispatcher = "returned"
            => /\ \A j \in DOMAIN futures : futures[j] = "yielded"
               /\ \A j \in DOMAIN jobs :
                    \/ calls[j].on_result = 1
                    \/ FailedEntries(jobs[j].label) >= 1)

(* a batch of three or more jobs has returned from an executor of one worker *)
C14_Witness ==
    /\ dispatcher = "returned"
    /\ Len(jobs) >= 3
    /\ max_concurrency = 1
    /\ \E j \in DOMAIN jobs : jobs[j].behaviour = "invoke_raises"
    /\ \E j \in DOMAIN jobs : jobs[j].behaviour = "ok"

----------------------------------------------------------------------------
(* Claims about stage attempts, checked under SpecAttempts *)

(* the attempts whose call has ended by returning or raising *)
Ended == {w \in Processes : attempts[w].pc \in {"returned", "raised"}}

RowOf(w) == stage_log[CHOOSE i \in attempts[w].row : TRUE]

(* C15, as stated: if a stage's logic raises after its log_stage_start, the record
   of that attempt is failed with the exception text as error_message and the
   exception is re-raised; once the call has returned or raised, no record the
   attempt inserted is still running. *)
C15_RaisedAttemptIsFailed ==
    \A w \in Processes :
        /\ (attempts[w].pc = "raised" /\ attempts[w].row # {}) =>
                /\ RowOf(w).status = "failed"
                /\ RowOf(w).error_message = attempts[w].error
        /\ (w \in Ended /\ attempts[w].row # {}) => RowOf(w).status # "running"

(* the except branch of the stage acts for w in this step *)
StageRaises(w) == attempts[w].pc = "running" /\ attempts'[w].pc \in {"handling", "raised"}

(* C15, amended: if a stage's logic raises after its log_stage_start and the record
   of that attempt is still running at that moment (no overlapping attempt of the
   same run and stage has ended in between), the record is moved to failed with
   the exception text as error_message; in every case the same exception is
   re-raised to the caller, and once the stage call has returned or raised, no
   record inserted by that attempt still has status running. *)
C15_RunningRecordOfRaisedAttemptIsFailed ==
    /\ [][\A w \in Processes :
            /\ StageRaises(w) =>
                /\ attempts'[w].error \in Errors
                /\ RowOf(w).status = "running" =>
                        /\ stage_log'[CHOOSE i \in attempts[w].row : TRUE].status = "failed"
                        /\ stage_log'[CHOOSE i \in attempts[w].row : TRUE].error_message
                                = attempts'[w].error
            /\ (attempts[w].pc = "handling" /\ attempts'[w].pc = "raised") =>
                    attempts'[w].error = attempts[w].error]_vars
    /\ [](\A w \in Ended : attempts[w].row # {} => RowOf(w).status # "running")

(* an attempt that raised while another attempt of the same stage was running, its
   record failed with its exception text *)
C15_Witness ==
    \E w \in Processes, x \in Processes :
        /\ w # x
        /\ attempts[w].pc = "raised"
        /\ attempts[w].row # {}
        /\ RowOf(w).status = "failed"
        /\ RowOf(w).error_message = attempts[w].error
        /\ attempts[x].row # {}
        /\ attempts[x].stage = attempts[w].stage

----------------------------------------------------------------------------
(* Claims about the end of a delta stage run, checked under SpecDelta *)

(* the run computed the digests of its candidates and every one of them equals
   the digest the ledger held when the run loaded it *)
AllUnchanged ==
    /\ lastRun.stage \in {3, 4, 5, 6}
    /\ lastRun.candidates # {}
    /\ \A e \in lastRun.candidates : Unchanged(e)

(* C16, as stated: when every candidate entity of a delta stage run is unchanged,
   the stage makes no external call and its current status after the run is
   completed, not failed, pending_review or running. *)
C16_NothingToDoIsCompleted ==
    AllUnchanged =>
        /\ lastRun.invoked \cup lastRun.prepared = {}
        /\ StatusOfLastRun = "completed"

(* C16, amended: such a run makes none of the calls the delta check guards and
   its current status after the run is completed; in stages 3, 5 and 6 it makes
   no external call at all, while stage 4 makes its characterization call, before
   any digest is computed, for every policy whose stored characterization is NULL
   or empty, also in a run in which every policy turns out unchanged. *)
C16_NothingToDoIsCompletedAfterPreparation ==
    AllUnchanged =>
        /\ lastRun.invoked = {}
        /\ lastRun.stage # 4 => lastRun.prepared = {}
        /\ StatusOfLastRun = "completed"

(* a stage 6 run over steps that all have their ledger rows: no pattern call,
   nothing stored or recorded, stage 6 completed *)
C16_Witness ==
    /\ AllUnchanged
    /\ lastRun.stage = 6
    /\ lastRun.invoked = {}
    /\ lastRun.recorded = {}
    /\ StatusOfLastRun = "completed"

----------------------------------------------------------------------------
(* Claims about the rows the terminal stage-log calls write, checked under Spec *)

TerminalCalls == {"log_stage_complete", "log_stage_failed", "log_stage_pending_review"}

(* ids of the rows of (run_id, stage) that have status running *)
RunningRows(log, run_id, stage) ==
    {i \in RowsOf(log, run_id, stage) : log[i].status = "running"}

(* C17: log_stage_complete, log_stage_failed and log_stage_pending_review called
   for a (run, stage) that has no record with status running change no stage_log
   record and raise no error, so repeating a completion call is harmless. *)
C17_NoRunningRecordNoChange ==
    [][(/\ lastCall'.op \in TerminalCalls
        /\ RunningRows(stage_log, lastCall'.run_id, lastCall'.stage) = {})
            => /\ stage_log' = stage_log
               /\ lastCall'.error = NULL]_vars

(* a completion call repeated on a stage whose record is completed already *)
C17_Witness ==
    /\ lastCall.op = "log_stage_complete"
    /\ lastCall.prev = "completed"
    /\ RowsOf(stage_log, lastCall.run_id, lastCall.stage) # {}
    /\ \A i \in RowsOf(stage_log, lastCall.run_id, lastCall.stage) :
            stage_log[i].status = "completed"

(* the row a terminal call of (run_id, stage) would write if it wrote one row
   only: the most recent running one *)
MostRecentRunning(log, run_id, stage) ==
    IF RunningRows(log, run_id, stage) = {} THEN {}
    ELSE {MaxOf(RunningRows(log, run_id, stage))}

(* C18: log_stage_complete, log_stage_failed and log_stage_pending_review change
   only the single most recent running record of (run, stage); any older record
   of the same (run, stage) that is still running, such as one left by an attempt
   whose process was killed, keeps status running and its other fields. *)
C18_OnlyMostRecentRunningChanges ==
    [][lastCall'.op \in TerminalCalls =>
            \A i \in DOMAIN stage_log :
                i \notin MostRecentRunning(stage_log, lastCall'.run_id, lastCall'.stage)
                    => stage_log'[i] = stage_log[i]]_vars

----------------------------------------------------------------------------
(* Claims about a partially failed batch, checked under SpecDelta *)

(* this step is a run of stage n: it appends the stage_log row of its
   log_stage_start *)
RunEnds(n) ==
    /\ Len(stage_log') = Len(stage_log) + 1
    /\ stage_log'[Len(stage_log')].stage = n
    /\ lastRun'.stage = n

(* at the end of the step, the batch of the run has a job that succeeded (its
   output stored and recorded) and a job that failed *)
PartlyFailed == lastRun'.recorded # {} /\ lastRun'.raised # {}

StatusAfterRun == get_stage_status(stage_log', lastRun'.run_id, lastRun'.stage)

(* C19, as stated: when the batch dispatched by a stage run has at least one
   successful job and at least one failed job, the stage's current status after
   the run is completed (not failed), for stages 5 and 6. *)
C19_PartialFailureIsCompleted ==
    [][\A n \in {5, 6} : (RunEnds(n) /\ PartlyFailed) => StatusAfterRun = "completed"]_vars

(* the successful jobs of the stage 5 run stored at least one step *)
StepsGenerated == \E p \in lastRun'.stored : exploitation_steps'[p] # {}

(* C19, amended: after such a run the stage's current status is never failed;
   for stage 6 it is completed; for stage 5, a human gate, it is pending_review
   when the successful jobs stored at least one step, and completed only when
   they stored none. *)
C19_PartialFailureIsNotFailed ==
    [][/\ (RunEnds(6) /\ PartlyFailed) => StatusAfterRun = "completed"
       /\ (RunEnds(5) /\ PartlyFailed) =>
            StatusAfterRun = IF StepsGenerated THEN "pending_review" ELSE "completed"]_vars

(* a stage 5 run in which the tree of one policy was stored and recorded and the
   job of another policy failed: stage 5 waits for review *)
C19_Witness ==
    /\ lastRun.stage = 5
    /\ lastRun.recorded # {}
    /\ lastRun.raised # {}
    /\ \E p \in lastRun.recorded : exploitation_steps[p] # {}
    /\ StatusOfLastRun = "pending_review"

----------------------------------------------------------------------------
(* Claims about the migrations a lock holder applies, checked under SpecMigrate *)

(* the versions greater than v, in increasing order *)
Due(v) == [k \in 1..(SCHEMA_VERSION - v) |-> v + k]

IsPrefix(s, t) == Len(s) <= Len(t) /\ SubSeq(t, 1, Len(s)) = s

(* instance i commits its migration transaction in this step *)
Commits(i) ==
    /\ proc[i].pc = "applying"
    /\ proc'[i].pc # "applying"
    /\ lastMigrate'[i].outcome \in {"returned", "raised"}
    /\ ~lastMigrate'[i].failed

(* C20: when the migrator holds the lock and the stored version is v <
   SCHEMA_VERSION, it executes exactly the migration steps whose version is
   greater than v, each once, in strictly increasing version order, executes no
   step with version <= v, and then sets the stored version to SCHEMA_VERSION in
   the same transaction; the stored version never decreases. *)
C20_AppliesExactlyTheNewerSteps ==
    /\ [](\A i \in Instances :
            proc[i].pc = "applying" =>
                /\ i \in advisory_lock
                /\ proc[i].current = Current(schema_version)
                /\ proc[i].current < SCHEMA_VERSION
                /\ IsPrefix(proc[i].executed, Due(proc[i].current)))
    /\ [][\A i \in Instances :
            Commits(i) =>
                /\ lastMigrate'[i].executed = Due(proc[i].current)
                /\ schema_version' = {SCHEMA_VERSION}
                /\ applied' = [v \in DOMAIN applied |->
                                  applied[v] + IF v > proc[i].current THEN 1 ELSE 0]]_vars
    /\ [][/\ Current(schema_version') >= Current(schema_version)
          /\ (schema_version' # schema_version \/ applied' # applied)
                => \E i \in Instances : Commits(i)]_vars

(* a store left at version 3 or 4 by an earlier deployment has been brought to
   SCHEMA_VERSION by a call that executed the newer entries only *)
C20_Witness ==
    \E i \in Instances :
        /\ lastMigrate[i].outcome = "returned"
        /\ lastMigrate[i].began_at \in {{3}, {4}}
        /\ lastMigrate[i].executed = Due(Current(lastMigrate[i].began_at))
        /\ Len(lastMigrate[i].executed) \in {2, 3}
        /\ schema_version = {SCHEMA_VERSION}
        /\ \A v \in DOMAIN applied : applied[v] = 1

----------------------------------------------------------------------------
(* Claims about the threads of the dispatcher, checked under SpecParallel *)

(* the jobs whose invoke_fn call is executing *)
Invoking == FuturesIn(futures, "running")

(* C21: during run_parallel_llm with max_concurrency = c >= 1, at every moment at
   most c invoke calls are executing concurrently, for any number of jobs. *)
C21_AtMostMaxConcurrencyInvokes ==
    /\ max_concurrency >= 1
    /\ Cardinality(Invoking) <= max_concurrency

(* every worker thread is inside invoke_fn and a job is still queued *)
C21_Witness ==
    /\ dispatcher = "waiting"
    /\ Len(jobs) > max_concurrency
    /\ Cardinality(Invoking) = max_concurrency
    /\ FuturesIn(futures, "pending") # {}

(* C22, as stated: a job's label appears in the failed labels run_parallel_llm
   returns if and only if that job's invoke_fn call raised an exception. *)
C22_FailedIffInvokeRaised ==
    dispatcher = "returned" =>
        \A j \in DOMAIN jobs :
            FailedEntries(jobs[j].label) >= 1 <=> jobs[j].behaviour = "invoke_raises"

(* the jobs whose invoke_fn call or on_result call raised *)
Unsuccessful == DOMAIN jobs \ Successful

(* C22, amended: a label appears in the failed labels run_parallel_llm returns if
   and only if, for a job carrying that label, the invoke_fn call raised or the
   on_result call raised; the list has one entry for each such job. *)
C22_FailedIffInvokeOrOnResultRaised ==
    dispatcher = "returned" =>
        /\ \A j \in DOMAIN jobs :
                FailedEntries(jobs[j].label) >= 1
                    <=> \E k \in Unsuccessful : jobs[k].label = jobs[j].label
        /\ \A n \in DOMAIN failed : \E k \in Unsuccessful : jobs[k].label = failed[n]
        /\ Len(failed) = Cardinality(Unsuccessful)

(* a returned batch in which the only failed label is that of a job whose
   invoke_fn returned and whose on_result raised *)
C22_Witness ==
    /\ dispatcher = "returned"
    /\ Len(failed) = 1
    /\ \E j \in DOMAIN jobs :
            /\ jobs[j].behaviour = "on_result_raises"
            /\ failed = <<jobs[j].label>>
            /\ calls[j].on_result = 1
    /\ \E j \in DOMAIN jobs : jobs[j].behaviour = "ok" /\ FailedEntries(jobs[j].label) = 0

----------------------------------------------------------------------------
(* Claims about cmd_run, checked under SpecCmdRun *)

(* cmd_run invokes the logic of stage n in this step *)
Invokes(n) == cli'.invoked = Append(cli.invoked, n)

(* the stages 1 .. k in order *)
FirstStages(k) == [n \in 1..k |-> n]

(* C23, as stated: in cmd_run with --stage all, stage logics are invoked one at a
   time in increasing stage order, the logic of stage N+1 is invoked only if
   stage N's current status at that moment is completed or approved, and once a
   stage ends pending_review no later stage is invoked in that invocation. *)
C23_SequentialGatedStages ==
    /\ [](cli.invoked = FirstStages(Len(cli.invoked)))
    /\ [][\A n \in STAGES \ {1} :
            Invokes(n) =>
                get_stage_status(stage_log, cli.run_id, n - 1) \in {"completed", "approved"}]_vars
    /\ [](\A k \in DOMAIN cli.invoked :
            cli.ended[k] = "pending_review" => k = Len(cli.invoked))

(* C23, amended: stage logics are invoked one at a time in increasing stage order,
   and the logic of stage N+1 is invoked only if stage N's current status at that
   moment is completed or approved; once a stage ends pending_review, a later
   stage is invoked in that invocation only if the stage has been approved by
   another process before cmd_run reads its status again. *)
C23_SequentialGatedUnlessApproved ==
    /\ [](cli.invoked = FirstStages(Len(cli.invoked)))
    /\ [][\A n \in STAGES \ {1} :
            Invokes(n) =>
                get_stage_status(stage_log, cli.run_id, n - 1) \in {"completed", "approved"}]_vars
    /\ [](\A k \in DOMAIN cli.invoked :
            (cli.ended[k] = "pending_review" /\ k < Len(cli.invoked))
                => cli.seen[k + 1] = "approved")

(* an invocation that ran stages 1 and 2, whose stage 2 ended pending_review, and
   that stopped there with stage 2 still pending *)
C23_Witness ==
    /\ cli.pc = "done"
    /\ cli.invoked = <<1, 2>>
    /\ cli.ended = <<"completed", "pending_review">>
    /\ get_stage_status(stage_log, cli.run_id, 2) = "pending_review"

----------------------------------------------------------------------------
(* Claims about the life of a stage_log record, checked under Spec *)

(* the status changes a record may go through *)
Transitions ==
    {<<"running", "completed">>, <<"running", "failed">>,
     <<"running", "pending_review">>, <<"pending_review", "approved">>}

(* C24: each stage_log record is inserted as running (a handler that inserts a
   record and ends it does both in one step of the model) and only ever changes
   status along running -> completed, running -> failed, running ->
   pending_review or pending_review -> approved; a record in completed, failed or
   approved never changes status again, and only approve_stage performs
   pending_review -> approved. *)
C24_StatusTransitions ==
    [][/\ Len(stage_log') >= Len(stage_log)
       /\ \A i \in DOMAIN stage_log' \ DOMAIN stage_log :
            \/ stage_log'[i].status = "running"
            \/ <<"running", stage_log'[i].status>> \in Transitions
       /\ \A i \in DOMAIN stage_log :
            \/ stage_log'[i].status = stage_log[i].status
            \/ /\ <<stage_log[i].status, stage_log'[i].status>> \in Transitions
               /\ stage_log[i].status = "pending_review" => lastCall'.op = "approve_stage"]_vars

(* a terminal call on a stage whose record has been approved left it approved *)
C24_Witness ==
    /\ lastCall.op \in TerminalCalls
    /\ lastCall.prev = "approved"
    /\ \E i \in RowsOf(stage_log, lastCall.run_id, lastCall.stage) :
            stage_log[i].status = "approved"

----------------------------------------------------------------------------
(* Claims about concurrent ledger writers, checked under SpecLedger *)

LastKey == <<lastRecord.stage, lastRecord.entity_id>>

(* C25: after any interleaving of record_processing calls by concurrent writers,
   the ledger holds exactly one record per (stage, entity) that was written,
   whose input_hash and run_id both come from one single call (the last to
   commit), and records of other (stage, entity) keys are unchanged. *)
C25_LastWriterWinsWholeRecord ==
    /\ [](lastRecord # NoRecord =>
            /\ LastKey \in DOMAIN stage_processing_log
            /\ stage_processing_log[LastKey] =
                    [input_hash |-> lastRecord.input_hash, run_id |-> lastRecord.run_id])
    /\ [][LET k == <<lastRecord'.stage, lastRecord'.entity_id>>
          IN  /\ DOMAIN stage_processing_log' = DOMAIN stage_processing_log \cup {k}
              /\ \A o \in DOMAIN stage_processing_log \ {k} :
                    stage_processing_log'[o] = stage_processing_log[o]]_vars

(* a writer has replaced the record another call had written for the same entity,
   hash and run both, next to the record of another entity *)
C25_Witness ==
    /\ lastRecord.writer = "w2"
    /\ \E old \in lastRecord.replaced :
            old.input_hash # lastRecord.input_hash /\ old.run_id # lastRecord.run_id
    /\ stage_processing_log[LastKey].run_id = lastRecord.run_id
    /\ DOMAIN stage_processing_log \ {LastKey} # {}

----------------------------------------------------------------------------
(* Claims about the gate under concurrency, checked under SpecGate *)

(* every request has returned or been rejected, and the gate is registered *)
GateSettled ==
    /\ approvals.gate = "registered"
    /\ \A a \in Requests : approvals.requests[a].pc \in {"approved", "rejected", "raised"}

GateRow == stage_log[CHOOSE i \in approvals.row : TRUE]

(* C26: under any interleaving of a gate registration (log_stage_start,
   log_stage_pending_review, store_task_token with token t) with an approval
   request for the same (run, stage), if the request passes its pending_review
   check and approves the gate's record, then token t is obtained and signalled
   to the external coordinator; the gate never ends approved with t stored but
   never signalled. *)
C26_ApprovedGateIsSignalled ==
    (GateSettled /\ GateRow.status = "approved" /\ GateRow.task_token = approvals.token)
        => Signals(approvals.token) >= 1

(* C27: for one registered gate with token t, under any interleaving of
   concurrent approval requests for the same (run, stage), send_task_success is
   called with t at most once and at most one request reports the stage as
   approved; every other request is rejected as not pending review. *)
C27_OneApprovalOneSignal ==
    (\A a \in Requests : approvals.requests[a].gate \in {NULL, "registered"}) =>
        /\ Signals(approvals.token) <= 1
        /\ Cardinality({a \in Requests : approvals.requests[a].pc = "approved"}) <= 1

----------------------------------------------------------------------------
(* Claims about the ledger and the output of stages 5 and 6, checked under
   SpecDelta *)

(* the ledger row of stage 5 for the policy holds the digest computed from the
   policy's scores and the calibration as they are now: the next run of stage 5
   skips the policy *)
LedgerIsCurrent(policy_id) ==
    StoredHash(stage_processing_log, 5, policy_id)
        = PolicyDigest(policy_scores, calibration, policy_id)

(* C28: after any sequence of stage 5 and stage 6 runs in which external calls
   may fail and entity inputs may change and later change back, whenever the
   ledger holds for an entity a digest equal to the entity's currently computed
   digest, the output generated for that entity is present in storage (here:
   the policy's exploitation tree); a stage never skips an entity whose output
   was deleted and not regenerated. *)
C28_CurrentDigestHasOutput ==
    part = "prediction" =>
        \A p \in Policies : LedgerIsCurrent(p) => exploitation_trees[p] # "absent"

----------------------------------------------------------------------------
(* Claims about the transaction of _migrate, checked under SpecMigrate *)

(* the instance is not inside SVAPStorage(): it has not called it, or the call
   has returned or raised *)
OutsideInit(i) == proc[i].pc \in {"idle", "ready", "raised"}

(* C29: on every path by which _migrate returns or raises (lock acquired or
   not, version at target or below, table missing, statement failure), the
   transaction it opened has been ended by a commit or a rollback before the
   connection's autocommit setting is restored, so no transaction and no
   advisory lock stays open after the call. *)
C29_NoTransactionLeftOpen ==
    \A i \in Instances :
        OutsideInit(i) => ~conn[i].in_transaction /\ i \notin advisory_lock

----------------------------------------------------------------------------
(* Claims about the threads of the parallel dispatcher, checked under
   SpecParallel *)

(* the jobs whose on_result call is in progress: the loop body has been entered
   for the future and future.result() has returned *)
OnResultRunning ==
    {j \in FuturesIn(futures, "handling") : jobs[j].behaviour # "invoke_raises"}

(* this step ends the loop body of exactly one future *)
EndsOneLoopBody ==
    \E j \in FuturesIn(futures, "handling") :
        futures' = [futures EXCEPT ![j] = "yielded"]

(* C30: during run_parallel_llm, on_result is executed only by the calling
   thread, so at every moment at most one on_result call is in progress and the
   total and failed accumulators are never updated by two threads at once,
   whatever max_concurrency is: the loop body is executing for at most one
   future, only while the caller is inside the loop, and every step that changes
   total or failed is the end of the loop body of one future. *)
C30_OnResultInCallingThreadOnly ==
    /\ [](/\ Cardinality(FuturesIn(futures, "handling")) <= 1
          /\ Cardinality(OnResultRunning) <= 1
          /\ OnResultRunning # {} => dispatcher = "waiting")
    /\ [][dispatcher = "waiting" /\ (total' # total \/ failed' # failed)
            => EndsOneLoopBody]_vars

(* with two worker threads: an on_result call is in progress while a worker is
   inside invoke_fn and a further future is finished and not yet handled *)
C30_Witness ==
    /\ dispatcher = "waiting"
    /\ max_concurrency = 2
    /\ OnResultRunning # {}
    /\ Invoking # {}
    /\ \E j \in FuturesIn(futures, "finished") : jobs[j].behaviour # "invoke_raises"

====
